---- MODULE Spec2Model ----
(***************************************************************************)
(* Model of the GOP synchronisation subsystem of the case-file manager:    *)
(* the queue classifier, the history ledger of queue occupancy, the        *)
(* reconciliation run (sync_gop_data) with its database session, and the   *)
(* background task registry behind POST /gop/sync.                         *)
(***************************************************************************)
EXTENDS Integers, Sequences, FiniteSets, TLC

VARIABLES
    clasif,              \* one call of _determinar_bandeja_por_usuario: arguments and result
    expedientes,         \* table expedientes, committed rows by id
    historial_bandejas,  \* table historial_bandejas, committed rows by id
    tabla_historial,     \* TRUE when the table historial_bandejas exists
    tx,                  \* per thread: the uncommitted writes of its database session
    hoy,                 \* date.today(), in days
    ult,                 \* the last history-ledger call: arguments and the branch it took
    columnas,            \* TRUE when expedientes has the per-queue columns
    contexto,            \* TRUE when the executor's thread has a Flask application context
    TASKS,               \* the task registry, by task id
    cola,                \* EXECUTOR's work queue: ids of the tasks whose runner has not started
    corrida,             \* per thread: the execution of sync_gop_data in progress
    respuesta,           \* the last answer of GET /gop/sync/status/<task_id>
    fallidas,            \* ids of the tasks whose run failed as a whole
    scraper              \* one call of _buscar_gops_especificos: arguments, portal and result

varsCorrida == <<columnas, contexto, TASKS, cola, corrida, respuesta, fallidas, scraper>>
vars == <<clasif, expedientes, historial_bandejas, tabla_historial, tx, hoy, ult,
          columnas, contexto, TASKS, cola, corrida, respuesta, fallidas, scraper>>

(***************************************************************************)
(* Text helpers: Python's str.lower(), str.strip() and the `in` substring  *)
(* test, over the characters the inputs below are built from.              *)
(***************************************************************************)
Mayusculas == <<"A","B","C","D","E","F","G","H","I","J","K","L","M","N","O","P","Q","R","S","T","U","V","W","X","Y","Z","Ú">>
Minusculas == <<"a","b","c","d","e","f","g","h","i","j","k","l","m","n","o","p","q","r","s","t","u","v","w","x","y","z","ú">>

lower_char(c) ==
    IF \E i \in 1..Len(Mayusculas) : Mayusculas[i] = c
    THEN Minusculas[CHOOSE i \in 1..Len(Mayusculas) : Mayusculas[i] = c]
    ELSE c

upper_char(c) ==
    IF \E i \in 1..Len(Minusculas) : Minusculas[i] = c
    THEN Mayusculas[CHOOSE i \in 1..Len(Minusculas) : Minusculas[i] = c]
    ELSE c

RECURSIVE lower(_)
lower(s) == IF s = "" THEN "" ELSE lower_char(SubSeq(s, 1, 1)) \o lower(SubSeq(s, 2, Len(s)))

RECURSIVE upper(_)
upper(s) == IF s = "" THEN "" ELSE upper_char(SubSeq(s, 1, 1)) \o upper(SubSeq(s, 2, Len(s)))

RECURSIVE lstrip(_)
lstrip(s) == IF s # "" /\ SubSeq(s, 1, 1) = " " THEN lstrip(SubSeq(s, 2, Len(s))) ELSE s

RECURSIVE rstrip(_)
rstrip(s) == IF s # "" /\ SubSeq(s, Len(s), Len(s)) = " " THEN rstrip(SubSeq(s, 1, Len(s) - 1)) ELSE s

strip(s) == rstrip(lstrip(s))

\* palabra in texto
Contiene(texto, palabra) ==
    \E i \in 1..(Len(texto) - Len(palabra) + 1) : SubSeq(texto, i, i + Len(palabra) - 1) = palabra

(***************************************************************************)
(* Queue classifier.                                                       *)
(***************************************************************************)
MIS_BANDEJAS == "Mis Bandejas"
TODOS_LOS_TRAMITES == "Todos los Trámites"

PalabrasCpim == {"cpim", "aguinagalde", "gustavo", "de jesús", "santiago", "javier"}
PalabrasImlauer == {"imlauer", "fernando", "sergio"}
PalabrasOnetto == {"onetto"}

Bandejas == {"cpim", "imlauer", "onetto", "profesional"}

\* The classifier without the source override: a plausible slip of the code.
DeterminarSinRegla(usuario_gop, fuente) ==
    IF usuario_gop = "" THEN "profesional"
    ELSE LET usuario == strip(lower(usuario_gop)) IN
         IF \E palabra \in PalabrasCpim : Contiene(usuario, palabra) THEN "cpim"
         ELSE IF \E palabra \in PalabrasImlauer : Contiene(usuario, palabra) THEN "imlauer"
         ELSE IF \E palabra \in PalabrasOnetto : Contiene(usuario, palabra) THEN "onetto"
         ELSE "profesional"

\* The classifier testing the imlauer set before the cpim set.
DeterminarOrdenCambiado(usuario_gop, fuente) ==
    IF fuente = TODOS_LOS_TRAMITES THEN "profesional"
    ELSE IF usuario_gop = "" THEN "profesional"
    ELSE LET usuario == strip(lower(usuario_gop)) IN
         IF \E palabra \in PalabrasImlauer : Contiene(usuario, palabra) THEN "imlauer"
         ELSE IF \E palabra \in PalabrasCpim : Contiene(usuario, palabra) THEN "cpim"
         ELSE IF \E palabra \in PalabrasOnetto : Contiene(usuario, palabra) THEN "onetto"
         ELSE "profesional"

_determinar_bandeja_por_usuario(usuario_gop, fuente) ==
    IF fuente = TODOS_LOS_TRAMITES THEN "profesional"
    ELSE IF usuario_gop = "" THEN "profesional"
    ELSE LET usuario == strip(lower(usuario_gop)) IN
         IF \E palabra \in PalabrasCpim : Contiene(usuario, palabra) THEN "cpim"
         ELSE IF \E palabra \in PalabrasImlauer : Contiene(usuario, palabra) THEN "imlauer"
         ELSE IF \E palabra \in PalabrasOnetto : Contiene(usuario, palabra) THEN "onetto"
         ELSE "profesional"

(***************************************************************************)
(* Inputs of the classifier: every keyword and some other words, alone or  *)
(* in pairs, in three letter cases, with and without surrounding blanks.   *)
(***************************************************************************)
OtrasPalabras == {"maria", "perez", "arq."}
Palabras == PalabrasCpim \cup PalabrasImlauer \cup PalabrasOnetto \cup OtrasPalabras

capital(s) == IF s = "" THEN "" ELSE upper_char(SubSeq(s, 1, 1)) \o SubSeq(s, 2, Len(s))

Formas == {"minuscula", "MAYUSCULA", "Capital"}
EnForma(s, f) == CASE f = "minuscula" -> s [] f = "MAYUSCULA" -> upper(s) [] OTHER -> capital(s)

TextosBase ==
    Palabras \cup {p \o " " \o q : p \in Palabras, q \in Palabras}

TextosUsuario ==
    {"", " ", "  "}
    \cup {EnForma(s, f) : s \in TextosBase, f \in Formas}
    \cup {" " \o EnForma(s, f) \o " " : s \in Palabras, f \in Formas}

Fuentes == {MIS_BANDEJAS, TODOS_LOS_TRAMITES, ""}

SIN_RESULTADO == "sin_resultado"

(***************************************************************************)
(* The database: committed tables and, per thread, the writes its session  *)
(* has executed and not yet committed.  A session reads its own writes     *)
(* over the committed rows; rollback drops them, commit publishes them.    *)
(***************************************************************************)
MaxExp == 3
MaxHist == 3
MaxFecha == 2

\* SQL NULL / Python None, in a numeric or date column and in a text column.
NULL == -1
NULL_TXT == "<NULL>"
\* No row with this id; no pending write for this id.
AUSENTE == [fila |-> "ausente"]
SIN_ESCRIBIR == [fila |-> "sin_escribir"]

ExpIds == 1..MaxExp
HistIds == 1..MaxHist
Fechas == 1..MaxFecha
Hilos == {"worker", "web"}

SesionVacia == [exp |-> [i \in ExpIds |-> SIN_ESCRIBIR], hist |-> [i \in HistIds |-> SIN_ESCRIBIR]]

\* What a session with pending writes s reads.
VerExp(s) == [i \in ExpIds |-> IF s.exp[i] # SIN_ESCRIBIR THEN s.exp[i] ELSE expedientes[i]]
VerHist(s) == [i \in HistIds |-> IF s.hist[i] # SIN_ESCRIBIR THEN s.hist[i] ELSE historial_bandejas[i]]

\* _db.session.rollback()
rollback(s) == SesionVacia

\* Ids of historial_bandejas no committed row and no session of another thread uses.
IdsLibres(t, s) ==
    {i \in HistIds : /\ VerHist(s)[i] = AUSENTE
                     /\ \A o \in Hilos \ {t} : tx[o].hist[i] \in {SIN_ESCRIBIR, AUSENTE}}

NuevoId(t, s) == CHOOSE i \in IdsLibres(t, s) : \A j \in IdsLibres(t, s) : i <= j

Min(a, b) == IF a < b THEN a ELSE b
Max(a, b) == IF a > b THEN a ELSE b

\* Python's s[:n]
Truncar(s, n) == SubSeq(s, 1, Min(n, Len(s)))

(***************************************************************************)
(* History ledger: historial_bandejas rows and the two operations that     *)
(* write them.                                                             *)
(***************************************************************************)
LargoColumna == 200

FilaHistorial(expediente_id, bandeja_tipo, bandeja_nombre, usuario_asignado, fecha_inicio) ==
    [expediente_id |-> expediente_id, bandeja_tipo |-> bandeja_tipo,
     bandeja_nombre |-> bandeja_nombre, usuario_asignado |-> usuario_asignado,
     fecha_inicio |-> fecha_inicio, fecha_fin |-> NULL, dias_en_bandeja |-> NULL]

\* Ids of the rows a session reads with the given expediente and fecha_fin IS NULL.
ActivosDeExpediente(s, expediente_id) ==
    {i \in HistIds : /\ VerHist(s)[i] # AUSENTE
                     /\ VerHist(s)[i].expediente_id = expediente_id
                     /\ VerHist(s)[i].fecha_fin = NULL}

\* ... AND bandeja_tipo = :bandeja_tipo
Activos(s, expediente_id, bandeja_tipo) ==
    {i \in ActivosDeExpediente(s, expediente_id) : VerHist(s)[i].bandeja_tipo = bandeja_tipo}

\* The UPDATE that closes the active row left out.
CerrarRegistroOmitido(s, id, fecha_fin, dias) == s

\* UPDATE historial_bandejas SET fecha_fin = .., dias_en_bandeja = .. WHERE id = ..
CerrarRegistro(s, id, fecha_fin, dias) ==
    [s EXCEPT !.hist[id] = [VerHist(s)[id] EXCEPT !.fecha_fin = fecha_fin, !.dias_en_bandeja = dias]]

\* The INSERT with the occupant bound to the label column as well.
CrearRegistroColumnasCambiadas(t, s, expediente_id, bandeja_tipo, nombre_bandeja, usuario, fecha_inicio, falla) ==
    IF falla = "insert" THEN rollback(s)
    ELSE [s EXCEPT !.hist[NuevoId(t, s)] =
              FilaHistorial(expediente_id, bandeja_tipo, Truncar(usuario, LargoColumna),
                            Truncar(usuario, LargoColumna), fecha_inicio)]

\* falla = "insert": the INSERT raises, the function rolls the session back and returns.
_crear_nuevo_registro_historial(t, s, expediente_id, bandeja_tipo, nombre_bandeja, usuario, fecha_inicio, falla) ==
    IF falla = "insert" THEN rollback(s)
    ELSE [s EXCEPT !.hist[NuevoId(t, s)] =
              FilaHistorial(expediente_id, bandeja_tipo, Truncar(nombre_bandeja, LargoColumna),
                            Truncar(usuario, LargoColumna), fecha_inicio)]

\* One iteration of the loop over datos_nuevos.items(): the sessions it can leave,
\* each with the branch taken (fetchone() returns any one of the active rows).
ProcesarBandeja(t, s, expediente_id, bandeja_tipo, datos, falla) ==
    IF datos.nombre = "" THEN {[s |-> s, efecto |-> "omitida"]}
    ELSE LET fecha_bandeja == IF datos.fecha = NULL THEN hoy ELSE datos.fecha
             activos == Activos(s, expediente_id, bandeja_tipo)
         IN  IF activos # {}
             THEN {LET registro_activo == VerHist(s)[id] IN
                   IF registro_activo.bandeja_nombre # datos.nombre
                      \/ registro_activo.usuario_asignado # datos.usuario
                   THEN [s |-> _crear_nuevo_registro_historial(
                                  t,
                                  CerrarRegistro(s, id, fecha_bandeja,
                                                 Max(0, fecha_bandeja - registro_activo.fecha_inicio)),
                                  expediente_id, bandeja_tipo, datos.nombre, datos.usuario,
                                  fecha_bandeja, falla),
                         efecto |-> IF falla = "insert" THEN "fallo_insert" ELSE "cambio"]
                   ELSE [s |-> s, efecto |-> "igual"]
                   : id \in activos}
             ELSE {[s |-> _crear_nuevo_registro_historial(t, s, expediente_id, bandeja_tipo,
                                                          datos.nombre, datos.usuario,
                                                          fecha_bandeja, falla),
                    efecto |-> IF falla = "insert" THEN "fallo_insert" ELSE "entro"]}

RECURSIVE RecorrerDatosNuevos(_, _, _, _, _, _)
RecorrerDatosNuevos(t, s, expediente_id, datos_nuevos, falla, efectos) ==
    IF datos_nuevos = <<>> THEN {[s |-> s, efectos |-> efectos]}
    ELSE UNION {RecorrerDatosNuevos(t, o.s, expediente_id, Tail(datos_nuevos), falla,
                                    Append(efectos, o.efecto))
                : o \in ProcesarBandeja(t, s, expediente_id, Head(datos_nuevos).bandeja_tipo,
                                        Head(datos_nuevos), falla)}

\* datos_nuevos: the dict as the sequence of its items, each
\* [bandeja_tipo, nombre, usuario, fecha].  falla = "consulta": a SELECT raises.
_actualizar_historial_tras_sincronizacion(t, s, expediente_id, datos_nuevos, falla) ==
    IF ~tabla_historial \/ falla = "consulta"
    THEN {[s |-> rollback(s), efectos |-> <<"rollback">>]}
    ELSE IF VerExp(s)[expediente_id] = AUSENTE
    THEN {[s |-> s, efectos |-> <<"sin_expediente">>]}
    ELSE RecorrerDatosNuevos(t, s, expediente_id, datos_nuevos, falla, <<>>)

\* HistorialBandeja.dias_calculados for a row with the given dates.
dias_calculados(fecha_inicio, fecha_fin) ==
    LET fecha_final == IF fecha_fin = NULL THEN hoy ELSE fecha_fin
    IN  Max(0, fecha_final - fecha_inicio)

\* Expediente.actualizar_historial_bandeja of the expediente with the given id:
\* the sessions it can leave (first() returns any one of the expediente's active rows).
actualizar_historial_bandeja(t, s, expediente_id, bandeja_tipo, bandeja_nombre, usuario_asignado, fecha) ==
    LET fecha_actual == IF fecha = NULL THEN hoy ELSE fecha
        nuevo(s1) == [s1 EXCEPT !.hist[NuevoId(t, s1)] =
                         FilaHistorial(expediente_id, bandeja_tipo, bandeja_nombre,
                                       usuario_asignado, fecha_actual)]
        activos == ActivosDeExpediente(s, expediente_id)
    IN  IF ~tabla_historial THEN {rollback(s)}
        ELSE IF activos = {} THEN {nuevo(s)}
        ELSE {nuevo(CerrarRegistro(s, id, fecha_actual,
                                   dias_calculados(VerHist(s)[id].fecha_inicio, fecha_actual)))
              : id \in activos}

\* What _db.session.commit() leaves in the tables: the pending writes over the committed rows.
CommitExp(s) == VerExp(s)
CommitHist(s) == VerHist(s)

(***************************************************************************)
(* Rows of the table expedientes: the columns the synchronisation reads    *)
(* and writes.                                                             *)
(***************************************************************************)
BandejaVacia == [nombre |-> NULL_TXT, usuario |-> NULL_TXT, fecha |-> NULL, sincronizacion |-> NULL]

GopVacio ==
    [bandeja_actual |-> NULL_TXT, usuario_asignado |-> NULL_TXT, estado |-> NULL_TXT,
     fecha_entrada |-> NULL, fecha_en_bandeja |-> NULL, ultima_sincronizacion |-> NULL]

FilaExpediente(gop_numero, formato, finalizado) ==
    [gop_numero |-> gop_numero, formato |-> formato, finalizado |-> finalizado,
     bandejas |-> [b \in Bandejas |-> BandejaVacia], gop |-> GopVacio]

(***************************************************************************)
(* The ledger operations applied one at a time, with any arguments.        *)
(***************************************************************************)
\* The longest label sync_gop_data passes on: str(..)[:200] of a longer text.
NombreLargo ==
    LET x1 == "x"
        x4 == x1 \o x1 \o x1 \o x1
        x16 == x4 \o x4 \o x4 \o x4
        x64 == x16 \o x16 \o x16 \o x16
        x256 == x64 \o x64 \o x64 \o x64
    IN  Truncar(x256, LargoColumna)

\* Arguments of the ledger operations.
BandejasLedger == {"cpim", "imlauer"}
NombresLedger == {"", "Bandeja A", NombreLargo}
\* Occupants the classifier puts in queue cpim.
UsuariosLedger == {"Gustavo Aguinagalde", "CPIM"}
FechasLedger == {1, 2}
Fallas == {"ninguna", "consulta", "insert"}

Dato(b, n, u, f) == [bandeja_tipo |-> b, nombre |-> n, usuario |-> u, fecha |-> f]

\* datos_nuevos of the history update: for expediente 1 every label, occupant and
\* date in queue cpim and one observation in queue imlauer; one for the others.
DatosLedger(expediente_id) ==
    IF expediente_id = 1
    THEN {<<Dato("cpim", n, u, f)>> : n \in NombresLedger, u \in UsuariosLedger, f \in FechasLedger}
         \cup {<<Dato("imlauer", "Bandeja A", "Fernando Imlauer", 1)>>}
    ELSE {<<Dato("cpim", "Bandeja A", "CPIM", 1)>>}

\* A narrower choice, where the model's own operation is applied as well.
DatosLedgerModelo(expediente_id) ==
    {<<Dato("cpim", "Bandeja A", "CPIM", 1)>>, <<Dato("imlauer", "Bandeja A", "Fernando Imlauer", 1)>>}
ArgsModelo ==
    [bandeja_tipo : BandejasLedger, bandeja_nombre : {"Bandeja B"}, usuario_asignado : {"CPIM"},
     fecha : {NULL, 1}]

\* Rows of historial_bandejas the session of thread t reads or another session has pending.
FilasUsadas(t, s) == MaxHist - Cardinality(IdsLibres(t, s))

\* Rows the ledger may hold where only the synchronisation's update is applied.
CupoSync == 2

HiloLedger == "web"

SinLlamada == [op |-> "ninguna", efectos |-> <<>>]

(***************************************************************************)
(* Runs of sync_gop_data and the task registry: values of the state.       *)
(***************************************************************************)
MaxTareas == 1
MaxCorridas == 1

TaskIds == 1..MaxTareas

\* TASKS.get(task_id) is None.
SIN_TAREA == [status |-> "ninguna"]

\* The stats dict of sync_gop_data; errores as the length of the list.
StatsCero ==
    [total_gop_encontrados |-> 0, expedientes_actualizados |-> 0, expedientes_no_encontrados |-> 0,
     bandejas |-> [b \in Bandejas |-> 0], errores |-> 0]

\* No case applied by the last step of the run.
SinAplicar == [aplicado |-> FALSE, paso |-> "ninguno"]

\* A thread that is not executing sync_gop_data.
CorridaInactiva ==
    [pc |-> "inactivo", task_id |-> NULL, gop_list |-> <<>>, grupos |-> <<>>,
     curr |-> 0, total |-> 0, ok |-> 0, fail |-> 0, stats |-> StatsCero,
     contados |-> {}, retorno |-> "ninguno", ultimo |-> SinAplicar, numero |-> 0,
     causa |-> "ninguna", hallados |-> {}, no_en_bd |-> 0]

SinRespuesta == [codigo |-> 0]

\* No call of the scraper under observation.
SinScraper == [fase |-> "ninguna"]

InitSinCorridas ==
    /\ columnas = TRUE
    /\ contexto = TRUE
    /\ TASKS = [id \in TaskIds |-> SIN_TAREA]
    /\ cola = <<>>
    /\ corrida = [t \in Hilos |-> CorridaInactiva]
    /\ respuesta = SinRespuesta
    /\ fallidas = {}

InitBase ==
    /\ clasif = [usuario_gop |-> "", fuente |-> "", bandeja |-> SIN_RESULTADO]
    /\ historial_bandejas = [i \in HistIds |-> AUSENTE]
    /\ tx = [t \in Hilos |-> SesionVacia]
    /\ hoy = 1
    /\ ult = SinLlamada
    /\ InitSinCorridas

InitLedger ==
    /\ InitBase
    /\ expedientes = [i \in ExpIds |-> IF i <= 2 THEN FilaExpediente("100" \o ToString(i), "Digital", FALSE)
                                                  ELSE AUSENTE]
    /\ tabla_historial \in BOOLEAN
    /\ scraper = SinScraper

InitClasificador ==
    /\ clasif \in [usuario_gop : TextosUsuario, fuente : Fuentes, bandeja : {SIN_RESULTADO}]
    /\ expedientes = [i \in ExpIds |-> AUSENTE]
    /\ historial_bandejas = [i \in HistIds |-> AUSENTE]
    /\ tabla_historial = TRUE
    /\ tx = [t \in Hilos |-> SesionVacia]
    /\ hoy = 1
    /\ ult = SinLlamada
    /\ InitSinCorridas
    /\ scraper = SinScraper

Clasificar ==
    /\ clasif.bandeja = SIN_RESULTADO
    /\ clasif' = [clasif EXCEPT !.bandeja = _determinar_bandeja_por_usuario(clasif.usuario_gop, clasif.fuente)]
    /\ UNCHANGED <<expedientes, historial_bandejas, tabla_historial, tx, hoy, ult>>
    /\ UNCHANGED varsCorrida

\* One call of _actualizar_historial_tras_sincronizacion in the session of thread t,
\* with datos_nuevos among datos_posibles[expediente_id] and at most cupo rows in the ledger.
HistorialTrasSincronizacion(t, datos_posibles, Fallos, cupo) ==
    \E expediente_id \in ExpIds, falla \in Fallos :
        \E datos_nuevos \in datos_posibles[expediente_id] :
            /\ FilasUsadas(t, tx[t]) + Len(datos_nuevos) <= cupo
            /\ \E o \in _actualizar_historial_tras_sincronizacion(t, tx[t], expediente_id, datos_nuevos, falla) :
                /\ tx' = [tx EXCEPT ![t] = o.s]
                /\ ult' = [op |-> "sync", efectos |-> o.efectos, expediente_id |-> expediente_id,
                           datos |-> datos_nuevos,
                           repetida |-> /\ ult.op = "sync"
                                        /\ ult.expediente_id = expediente_id
                                        /\ ult.datos = datos_nuevos,
                           efectos_antes |-> ult.efectos]
            /\ UNCHANGED <<clasif, expedientes, historial_bandejas, tabla_historial, hoy>>
            /\ UNCHANGED varsCorrida

\* One call of Expediente.actualizar_historial_bandeja in the session of thread t.
ActualizarHistorialBandeja(t) ==
    \E expediente_id \in ExpIds, a \in ArgsModelo :
        /\ VerExp(tx[t])[expediente_id] # AUSENTE
        /\ FilasUsadas(t, tx[t]) < MaxHist
        /\ \E s \in actualizar_historial_bandeja(t, tx[t], expediente_id, a.bandeja_tipo,
                                                 a.bandeja_nombre, a.usuario_asignado, a.fecha) :
            tx' = [tx EXCEPT ![t] = s]
        /\ ult' = [op |-> "modelo", efectos |-> <<>>]
        /\ UNCHANGED <<clasif, expedientes, historial_bandejas, tabla_historial, hoy>>
        /\ UNCHANGED varsCorrida

\* _db.session.commit() in thread t.
Commit(t) ==
    /\ tx[t] # SesionVacia
    /\ expedientes' = CommitExp(tx[t])
    /\ historial_bandejas' = CommitHist(tx[t])
    /\ tx' = [tx EXCEPT ![t] = SesionVacia]
    /\ ult' = SinLlamada
    /\ UNCHANGED <<clasif, tabla_historial, hoy>>
    /\ UNCHANGED varsCorrida

\* create_historial_table(): CREATE TABLE IF NOT EXISTS historial_bandejas, committed.
CrearTablaHistorial ==
    /\ ~tabla_historial
    /\ tabla_historial' = TRUE
    /\ ult' = SinLlamada
    /\ UNCHANGED <<clasif, expedientes, historial_bandejas, tx, hoy>>
    /\ UNCHANGED varsCorrida

\* Midnight: date.today() advances.
PasaElDia ==
    /\ hoy < MaxFecha
    /\ hoy' = hoy + 1
    /\ ult' = SinLlamada
    /\ UNCHANGED <<clasif, expedientes, historial_bandejas, tabla_historial, tx>>
    /\ UNCHANGED varsCorrida

NextClasificador == Clasificar

SpecClasificador == InitClasificador /\ [][NextClasificador]_vars

\* Only the history update the synchronisation makes.
NextLedgerSync ==
    \/ HistorialTrasSincronizacion(HiloLedger, [e \in ExpIds |-> DatosLedger(e)], Fallas, CupoSync)
    \/ Commit(HiloLedger)
    \/ CrearTablaHistorial

SpecLedgerSync == InitLedger /\ [][NextLedgerSync]_vars

\* Both ledger operations, in any order.
NextLedger ==
    \/ HistorialTrasSincronizacion(HiloLedger, [e \in ExpIds |-> DatosLedgerModelo(e)], {"ninguna"}, MaxHist)
    \/ ActualizarHistorialBandeja(HiloLedger)
    \/ Commit(HiloLedger)
    \/ CrearTablaHistorial
    \/ PasaElDia

SpecLedger == InitLedger /\ [][NextLedger]_vars

(***************************************************************************)
(* sync_gop_data: the steps of one execution in the session of a thread.   *)
(* The scraper comes first: its two phases over a portal given as data.    *)
(***************************************************************************)
LargoEstado == 100

RECURSIVE EnOrden(_)
\* The ids of a set, ascending.
EnOrden(ids) ==
    IF ids = {} THEN <<>>
    ELSE LET i == CHOOSE i \in ids : \A j \in ids : i <= j
         IN  <<i>> \o EnOrden(ids \ {i})

\* SELECT DISTINCT gop_numero FROM expedientes WHERE gop_numero IS NOT NULL AND
\* gop_numero != '' AND (finalizado = false OR finalizado IS NULL) AND formato = 'Digital'
\* as the ids of the rows that give the distinct values.
FilasConGop(s) ==
    LET cumple(i) == /\ VerExp(s)[i] # AUSENTE
                     /\ VerExp(s)[i].gop_numero # NULL_TXT
                     /\ VerExp(s)[i].gop_numero # ""
                     /\ ~VerExp(s)[i].finalizado
                     /\ VerExp(s)[i].formato = "Digital"
    IN  {i \in ExpIds : /\ cumple(i)
                        /\ \A j \in ExpIds : (j < i /\ cumple(j)) =>
                               VerExp(s)[j].gop_numero # VerExp(s)[i].gop_numero}

\* gop_list = [row[0].strip() for row in gop_numbers if row[0] and row[0].strip()]
gop_list(s) ==
    LET filas == EnOrden(FilasConGop(s))
        limpios == [k \in 1..Len(filas) |-> strip(VerExp(s)[filas[k]].gop_numero)]
    IN  SelectSeq(limpios, LAMBDA g : g # "")

\* One record of the scraper's result; the dates as _parsear_fecha returns them.
Registro(nro_sistema, usuario_asignado, bandeja_actual, fuente) ==
    [nro_sistema |-> nro_sistema, usuario_asignado |-> usuario_asignado,
     bandeja_actual |-> bandeja_actual, fuente |-> fuente, estado |-> "En curso",
     fecha_entrada |-> 1, fecha_en_bandeja |-> NULL]

\* The tracking number is in neither view of the portal.
NO_ESTA == [nro_sistema |-> NULL_TXT]

GopDe(i) == "100" \o ToString(i)

\* What the portal may show for a tracking number when it is scraped.
Portal(nro) ==
    IF nro = GopDe(1)
    THEN {NO_ESTA,
          Registro(nro, "Fernando Imlauer", "Bandeja A", MIS_BANDEJAS),
          Registro(nro, "Fernando Imlauer", "Bandeja A", TODOS_LOS_TRAMITES)}
    ELSE {NO_ESTA, Registro(nro, "CPIM", "Bandeja B", MIS_BANDEJAS)}

\* The numbers of a list, as a set: set(gop_list).
Elementos(lista) == {lista[k] : k \in 1..Len(lista)}

RECURSIVE SinRepetir(_, _)
\* The numbers of a list in order of first appearance.
SinRepetir(lista, vistos) ==
    IF lista = <<>> THEN <<>>
    ELSE IF Head(lista) \in vistos THEN SinRepetir(Tail(lista), vistos)
    ELSE <<Head(lista)>> \o SinRepetir(Tail(lista), vistos \cup {Head(lista)})

Reverso(lista) == [k \in 1..Len(lista) |-> lista[Len(lista) + 1 - k]]

\* What happens when one pending number is searched in "Todos los Trámites".
\*   navegacion: _goto_protegido raises;      espera: _expandir_y_esperar_filtros raises;
\*   sin_filtro: no filter input is usable;   relogin: the re-login after a failed filter raises;
\*   hallado: the filtered grid has the row;  no_hallado: it does not.
ResultadosTodos == {"navegacion", "espera", "sin_filtro", "relogin", "hallado", "no_hallado"}

\* Why _buscar_gops_especificos raises before it searches, or "ok".
Arranques == {"ok", "navegador", "credenciales", "login"}

\* The row of "Mis Bandejas" and the row of "Todos los Trámites" of a number.
FilaMisBandejas(nro) == Registro(nro, "CPIM", "Bandeja B", MIS_BANDEJAS)
FilaTodos(nro) == Registro(nro, "Fernando Imlauer", "Bandeja A", TODOS_LOS_TRAMITES)

RECURSIVE MultipleSinQuitar(_, _, _)
\* The page scan with the found number left in pendientes.
MultipleSinQuitar(pendientes, filas, encontrados) ==
    IF pendientes = {} \/ filas = <<>> THEN encontrados
    ELSE LET datos == Head(filas) IN
         IF datos.nro_sistema \in pendientes
         THEN MultipleSinQuitar(pendientes, Tail(filas), Append(encontrados, datos))
         ELSE MultipleSinQuitar(pendientes, Tail(filas), encontrados)

RECURSIVE _buscar_gops_en_pagina_multiple(_, _, _)
\* The loop over the rows of the paginated grid: a row whose number is pending is
\* kept and the number leaves pendientes; the scan ends when nothing is pending.
_buscar_gops_en_pagina_multiple(pendientes, filas, encontrados) ==
    IF pendientes = {} \/ filas = <<>> THEN encontrados
    ELSE LET datos == Head(filas) IN
         IF datos.nro_sistema \in pendientes
         THEN _buscar_gops_en_pagina_multiple(pendientes \ {datos.nro_sistema}, Tail(filas),
                                              Append(encontrados, datos))
         ELSE _buscar_gops_en_pagina_multiple(pendientes, Tail(filas), encontrados)

RECURSIVE BuscarPendientes(_, _, _, _)
\* The loop over gops_pendientes in "Todos los Trámites": navigation failures and an
\* unusable filter skip the number; an exception of the filter-row wait or of the
\* re-login leaves the loop for the except of the phase.  buscados lists the numbers
\* whose search was started.
BuscarPendientes(orden, todos, encontrados_todos_totales, buscados) ==
    IF orden = <<>>
    THEN [excepcion |-> FALSE, encontrados |-> encontrados_todos_totales, buscados |-> buscados]
    ELSE LET gop_numero == Head(orden)
             b == Append(buscados, gop_numero)
         IN  CASE todos[gop_numero] \in {"espera", "relogin"} ->
                    [excepcion |-> TRUE, encontrados |-> encontrados_todos_totales, buscados |-> b]
               [] todos[gop_numero] = "hallado" ->
                    BuscarPendientes(Tail(orden), todos,
                                     Append(encontrados_todos_totales, FilaTodos(gop_numero)), b)
               [] OTHER ->
                    BuscarPendientes(Tail(orden), todos, encontrados_todos_totales, b)

\* _buscar_gops_especificos(gop_list) against the portal e: it raises (excepcion) when
\* the browser, the credentials or the login fail; else resultados holds the records
\* of "Mis Bandejas" followed by those of "Todos los Trámites", which are added only
\* when the loop over the pending numbers ends without exception.
_buscar_gops_especificos(lista, e) ==
    IF e.arranque # "ok"
    THEN [excepcion |-> TRUE, resultados |-> <<>>, en_bandejas |-> {}, buscados |-> <<>>]
    ELSE LET encontrados_bandejas ==
                 IF e.mis_falla THEN <<>>
                 ELSE _buscar_gops_en_pagina_multiple(Elementos(lista), e.filas, <<>>)
             gops_encontrados_bandejas == {encontrados_bandejas[k].nro_sistema :
                                              k \in 1..Len(encontrados_bandejas)}
             gops_pendientes == Elementos(lista) \ gops_encontrados_bandejas
             en_orden == SelectSeq(SinRepetir(lista, {}), LAMBDA g : g \in gops_pendientes)
             orden == IF e.invertido THEN Reverso(en_orden) ELSE en_orden
             todos == BuscarPendientes(orden, e.todos, <<>>, <<>>)
         IN  [excepcion |-> FALSE,
              resultados |-> encontrados_bandejas
                                \o (IF todos.excepcion THEN <<>> ELSE todos.encontrados),
              en_bandejas |-> gops_encontrados_bandejas,
              buscados |-> todos.buscados]

\* The portal of a run: each number is in "Mis Bandejas", in "Todos los Trámites" or
\* in neither, as Portal allows; every search ends without exception.
EscenariosCorrida(lista) ==
    LET vistas == UNION {Portal(lista[k]) : k \in 1..Len(lista)}
        hallazgos == {f \in [1..Len(lista) -> vistas] : \A k \in 1..Len(lista) : f[k] \in Portal(lista[k])}
    IN  {[arranque |-> "ok", mis_falla |-> FALSE, invertido |-> FALSE,
          filas |-> SelectSeq(f, LAMBDA r : r # NO_ESTA /\ r.fuente = MIS_BANDEJAS),
          todos |-> [n \in Elementos(lista) |->
                        IF \E k \in 1..Len(lista) : /\ lista[k] = n /\ f[k] # NO_ESTA
                                                    /\ f[k].fuente = TODOS_LOS_TRAMITES
                        THEN "hallado" ELSE "no_hallado"]]
         : f \in hallazgos}

RECURSIVE Agrupar(_, _)
\* gop_agrupados: the records of each nro_sistema, in order of first appearance.
Agrupar(resultados, grupos) ==
    IF resultados = <<>> THEN grupos
    ELSE LET datos == Head(resultados)
             donde == {k \in 1..Len(grupos) : grupos[k].gop_numero = datos.nro_sistema}
         IN  IF donde = {}
             THEN Agrupar(Tail(resultados),
                          Append(grupos, [gop_numero |-> datos.nro_sistema, lista_datos |-> <<datos>>]))
             ELSE Agrupar(Tail(resultados),
                          [grupos EXCEPT ![CHOOSE k \in donde : TRUE].lista_datos = Append(@, datos)])

\* _limpiar_campos_bandeja(expediente_id, db_session)
_limpiar_campos_bandeja(s, expediente_id) ==
    [s EXCEPT !.exp[expediente_id] =
        [VerExp(s)[expediente_id] EXCEPT !.bandejas = [b \in Bandejas |-> BandejaVacia]]]

\* datos_bandejas_historial[bandeja_tipo] = item, the dict as the sequence of its items.
PonerItem(items, item) ==
    IF \E k \in 1..Len(items) : items[k].bandeja_tipo = item.bandeja_tipo
    THEN [k \in 1..Len(items) |-> IF items[k].bandeja_tipo = item.bandeja_tipo THEN item ELSE items[k]]
    ELSE Append(items, item)

\* a or b, for dates
O(a, b) == IF a # NULL THEN a ELSE b

RECURSIVE ProcesarRegistros(_, _, _, _, _)
\* The loop over lista_datos: the UPDATE of the classified queue's columns, the
\* count per queue and the item kept for the history update.
ProcesarRegistros(s, expediente_id, lista_datos, bandejas, items) ==
    IF lista_datos = <<>> THEN [s |-> s, bandejas |-> bandejas, items |-> items]
    ELSE LET datos == Head(lista_datos)
             bandeja_tipo == _determinar_bandeja_por_usuario(datos.usuario_asignado, datos.fuente)
             usuario_para_guardar == IF datos.fuente = TODOS_LOS_TRAMITES THEN "Profesional"
                                     ELSE Truncar(datos.usuario_asignado, LargoColumna)
             nombre == Truncar(datos.bandeja_actual, LargoColumna)
             fecha == O(datos.fecha_en_bandeja, datos.fecha_entrada)
             s1 == [s EXCEPT !.exp[expediente_id] =
                       [VerExp(s)[expediente_id] EXCEPT !.bandejas[bandeja_tipo] =
                           [nombre |-> nombre, usuario |-> usuario_para_guardar,
                            fecha |-> fecha, sincronizacion |-> hoy]]]
         IN  ProcesarRegistros(s1, expediente_id, Tail(lista_datos),
                               [bandejas EXCEPT ![bandeja_tipo] = @ + 1],
                               PonerItem(items, Dato(bandeja_tipo, nombre, usuario_para_guardar,
                                                     O(fecha, hoy))))

\* UPDATE expedientes SET gop_bandeja_actual = .., .. WHERE id = .. AND formato = 'Digital'
ActualizarCamposGop(s, expediente_id, primer_dato) ==
    IF VerExp(s)[expediente_id].formato # "Digital" THEN s
    ELSE [s EXCEPT !.exp[expediente_id] =
            [VerExp(s)[expediente_id] EXCEPT !.gop =
                [bandeja_actual |-> Truncar(primer_dato.bandeja_actual, LargoColumna),
                 usuario_asignado |-> IF primer_dato.fuente = TODOS_LOS_TRAMITES THEN "Profesional"
                                      ELSE Truncar(primer_dato.usuario_asignado, LargoColumna),
                 estado |-> Truncar(primer_dato.estado, LargoEstado),
                 fecha_entrada |-> primer_dato.fecha_entrada,
                 fecha_en_bandeja |-> primer_dato.fecha_en_bandeja,
                 ultima_sincronizacion |-> hoy]]]

\* The SELECT of the case without the test on formato.
BuscarExpedienteCualquierFormato(s, gop_numero) ==
    {i \in ExpIds : /\ VerExp(s)[i] # AUSENTE
                    /\ VerExp(s)[i].gop_numero = gop_numero}

\* SELECT id, formato FROM expedientes WHERE gop_numero = :gop_numero AND formato = 'Digital':
\* the rows fetchone() can return.
BuscarExpediente(s, gop_numero) ==
    {i \in ExpIds : /\ VerExp(s)[i] # AUSENTE
                    /\ VerExp(s)[i].gop_numero = gop_numero
                    /\ VerExp(s)[i].formato = "Digital"}

\* Lines 258-264: no digital case has the number.
NoEncontradoEnBD(c1) ==
    [c1 EXCEPT !.stats.errores = @ + 1, !.fail = @ + 1, !.no_en_bd = @ + 1,
               !.ultimo = [aplicado |-> FALSE, paso |-> "no_encontrado"]]

\* The exception of the apply step ends the loop and the run.
ExcepcionTerminaLaCorrida(c1, expediente_id) ==
    [c1 EXCEPT !.pc = "retorno", !.retorno = "error", !.causa = "aplicar",
               !.ultimo = [aplicado |-> FALSE, paso |-> "excepcion", expediente_id |-> expediente_id]]

\* Lines 394-401: the except of the apply step.
ExcepcionAlAplicar(c1, expediente_id) ==
    [c1 EXCEPT !.stats.errores = @ + 1, !.fail = @ + 1,
               !.ultimo = [aplicado |-> FALSE, paso |-> "excepcion", expediente_id |-> expediente_id]]

\* The case counted as a failure when its history update did not run to its end.
ContarSegunHistorial(c, c1, expediente_id, bandejas, fila, primer_dato, efectos) ==
    IF efectos = <<"rollback">>
    THEN ExcepcionAlAplicar(c1, expediente_id)
    ELSE [c1 EXCEPT !.stats.bandejas = bandejas,
                    !.stats.expedientes_actualizados = @ + 1,
                    !.ok = @ + 1,
                    !.contados = @ \cup {[expediente_id |-> expediente_id,
                                         bandejas |-> fila.bandejas, gop |-> fila.gop]},
                    !.ultimo = [aplicado |-> TRUE, paso |-> "aplicado",
                                expediente_id |-> expediente_id, datos |-> primer_dato,
                                actualizados_antes |-> c.stats.expedientes_actualizados,
                                efectos |-> efectos]]

\* Lines 389-391, after the history update has returned: the case is counted as
\* updated.  fila is the row the run has written, efectos what the history update did.
ContarActualizado(c, c1, expediente_id, bandejas, fila, primer_dato, efectos) ==
    [c1 EXCEPT !.stats.bandejas = bandejas,
               !.stats.expedientes_actualizados = @ + 1,
               !.ok = @ + 1,
               !.contados = @ \cup {[expediente_id |-> expediente_id,
                                    bandejas |-> fila.bandejas, gop |-> fila.gop]},
               !.ultimo = [aplicado |-> TRUE, paso |-> "aplicado",
                           expediente_id |-> expediente_id, datos |-> primer_dato,
                           actualizados_antes |-> c.stats.expedientes_actualizados,
                           efectos |-> efectos]]

\* One iteration of the loop over gop_agrupados, for the run c of thread t with
\* pending writes s: the sessions and runs it can leave (fetchone() returns any one
\* of the rows with the number).  falla = "sentencia": the first UPDATE after
\* _limpiar_campos_bandeja raises and the writes made before it stay in the session;
\* falla = "consulta": a SELECT of the history update raises.
AplicarGrupo(t, s, c, falla) ==
    LET grupo == Head(c.grupos)
        c1 == [c EXCEPT !.curr = @ + 1, !.grupos = Tail(@)]
        candidatos == BuscarExpediente(s, grupo.gop_numero)
    IN  IF candidatos = {}
        THEN {[s |-> s, c |-> NoEncontradoEnBD(c1)]}
        ELSE UNION {
               IF falla = "sentencia"
               THEN {[s |-> _limpiar_campos_bandeja(s, expediente_id),
                      c |-> ExcepcionAlAplicar(c1, expediente_id)]}
               ELSE
               LET r == ProcesarRegistros(_limpiar_campos_bandeja(s, expediente_id), expediente_id,
                                          grupo.lista_datos, c.stats.bandejas, <<>>)
                   s2 == ActualizarCamposGop(r.s, expediente_id, grupo.lista_datos[1])
               IN  {[s |-> o.s,
                     c |-> ContarActualizado(c, c1, expediente_id, r.bandejas,
                                             VerExp(s2)[expediente_id], grupo.lista_datos[1],
                                             o.efectos)]
                    : o \in _actualizar_historial_tras_sincronizacion(t, s2, expediente_id,
                                                                      r.items, falla)}
               : expediente_id \in candidatos}

\* The stats with expedientes_no_encontrados left at 0.
EstadisticasSinNoEncontrados(lista, gop_agrupados) ==
    [StatsCero EXCEPT !.total_gop_encontrados = Len(gop_agrupados)]

\* Lines 231-240: the stats before the loop over gop_agrupados.
EstadisticasIniciales(lista, gop_agrupados) ==
    [StatsCero EXCEPT !.total_gop_encontrados = Len(gop_agrupados),
                      !.expedientes_no_encontrados = Len(lista) - Len(gop_agrupados)]

\* A progress callback that writes to the first task also for a run without one.
ReportarSinTarea(tasks, c, current, total, ok, fail) ==
    [tasks EXCEPT ![IF c.task_id = NULL THEN 1 ELSE c.task_id] =
        [status |-> "running", progress |-> current, total |-> total, ok |-> ok, fail |-> fail]]

\* update_progress(current, total, ok, fail, note) of the runner of task c.task_id;
\* _noop_progress when the run has no task.
_report(tasks, c, current, total, ok, fail) ==
    IF c.task_id = NULL THEN tasks
    ELSE [tasks EXCEPT ![c.task_id] =
            [status |-> "running", progress |-> current, total |-> total, ok |-> ok, fail |-> fail]]

\* sync_gop_data has been entered and has not returned.
EnCurso(t) == corrida[t].pc \in {"listar", "verificar", "scrape", "aplicar"}

HiloEjecutor == "worker"
HiloPeticion == "web"

FallasCorrida == {"ninguna", "consulta", "sentencia"}

(***************************************************************************)
(* The routes and the executor.                                            *)
(***************************************************************************)
\* POST /gop/sync: the task is registered as queued and its runner submitted.
gop_sync ==
    \E task_id \in TaskIds :
        /\ TASKS[task_id] = SIN_TAREA
        /\ \A otro \in TaskIds : otro < task_id => TASKS[otro] # SIN_TAREA
        /\ TASKS' = [TASKS EXCEPT ![task_id] =
                        [status |-> "queued", progress |-> 0, total |-> NULL, ok |-> 0, fail |-> 0]]
        /\ cola' = Append(cola, task_id)
        /\ respuesta' = SinRespuesta
        /\ UNCHANGED <<clasif, expedientes, historial_bandejas, tabla_historial, tx, hoy, ult,
                       columnas, contexto, corrida, fallidas, scraper>>

\* The executor's only thread takes the next runner: status "running", sync_gop_data entered.
runner_inicio ==
    /\ cola # <<>>
    /\ corrida[HiloEjecutor].pc = "inactivo"
    /\ TASKS' = [TASKS EXCEPT ![Head(cola)].status = "running"]
    /\ cola' = Tail(cola)
    /\ corrida' = [corrida EXCEPT ![HiloEjecutor] =
                      [CorridaInactiva EXCEPT !.pc = "listar", !.task_id = Head(cola),
                                              !.numero = corrida[HiloEjecutor].numero + 1]]
    /\ respuesta' = SinRespuesta
    /\ UNCHANGED <<clasif, expedientes, historial_bandejas, tabla_historial, tx, hoy, ult,
                   columnas, contexto, fallidas, scraper>>

\* POST /gop/sincronizar: the request's thread enters sync_gop_data().
sincronizar_gop ==
    /\ corrida[HiloPeticion].pc = "inactivo"
    /\ corrida[HiloPeticion].numero < MaxCorridas
    /\ corrida' = [corrida EXCEPT ![HiloPeticion] =
                      [CorridaInactiva EXCEPT !.pc = "listar",
                                              !.numero = corrida[HiloPeticion].numero + 1]]
    /\ respuesta' = SinRespuesta
    /\ UNCHANGED <<clasif, expedientes, historial_bandejas, tabla_historial, tx, hoy, ult,
                   columnas, contexto, TASKS, cola, fallidas, scraper>>

(***************************************************************************)
(* The steps of sync_gop_data in thread t.                                 *)
(***************************************************************************)
SinCambiosBD == UNCHANGED <<clasif, expedientes, historial_bandejas, tabla_historial, hoy, ult,
                            columnas, contexto, cola, fallidas, scraper>>

\* Lines 149-182: the pending digital numbers are listed.  In a thread without
\* application context current_app raises, also in the handler of the general
\* except, and the exception leaves sync_gop_data.
Listar(t) ==
    /\ corrida[t].pc = "listar"
    /\ LET c == corrida[t]
           lista == gop_list(tx[t])
       IN  IF t = HiloEjecutor /\ ~contexto
           THEN /\ corrida' = [corrida EXCEPT ![t] = [c EXCEPT !.pc = "retorno", !.retorno = "excepcion"]]
                /\ TASKS' = TASKS
           ELSE IF lista = <<>>
           THEN /\ corrida' = [corrida EXCEPT ![t] =
                                  [c EXCEPT !.pc = "retorno", !.retorno = "stats",
                                            !.stats = [StatsCero EXCEPT !.errores = 1]]]
                /\ TASKS' = _report(TASKS, c, 0, 0, 0, 0)
           ELSE /\ corrida' = [corrida EXCEPT ![t] = [c EXCEPT !.pc = "verificar", !.gop_list = lista]]
                /\ TASKS' = _report(TASKS, c, 0, Len(lista), 0, 0)
    /\ respuesta' = SinRespuesta
    /\ tx' = tx
    /\ SinCambiosBD

\* The verification that goes on to the scraper whatever the SELECT does.
VerificarSinAbortar(t) ==
    /\ corrida[t].pc = "verificar"
    /\ corrida' = [corrida EXCEPT ![t] = [corrida[t] EXCEPT !.pc = "scrape"]]
    /\ TASKS' = TASKS
    /\ respuesta' = SinRespuesta
    /\ tx' = tx
    /\ SinCambiosBD

\* Lines 184-209: the SELECT of the per-queue columns.
Verificar(t) ==
    /\ corrida[t].pc = "verificar"
    /\ LET c == corrida[t] IN
       /\ corrida' = [corrida EXCEPT ![t] =
                         IF columnas THEN [c EXCEPT !.pc = "scrape"]
                         ELSE [c EXCEPT !.pc = "retorno", !.retorno = "error", !.causa = "columnas"]]
       /\ TASKS' = IF columnas THEN TASKS ELSE _report(TASKS, c, 0, Len(c.gop_list), 0, 0)
    /\ respuesta' = SinRespuesta
    /\ tx' = tx
    /\ SinCambiosBD

\* Lines 211-245: the scraper runs once for the whole list; it raises (credentials,
\* browser, login) or returns the records, which are grouped by number.
Scrape(t) ==
    /\ corrida[t].pc = "scrape"
    /\ LET c == corrida[t] IN
       \/ \E arranque \in Arranques \ {"ok"} :
            /\ _buscar_gops_especificos(c.gop_list, [arranque |-> arranque]).excepcion
            /\ corrida' = [corrida EXCEPT ![t] =
                              [c EXCEPT !.pc = "retorno", !.retorno = "error", !.causa = arranque]]
            /\ TASKS' = _report(TASKS, c, 0, 0, 0, 1)
       \/ \E e \in EscenariosCorrida(c.gop_list) :
            LET resultados_por_gop == _buscar_gops_especificos(c.gop_list, e).resultados
                gop_agrupados == Agrupar(resultados_por_gop, <<>>)
            IN
            /\ corrida' = [corrida EXCEPT ![t] =
                  [c EXCEPT !.pc = "aplicar", !.grupos = gop_agrupados,
                            !.total = Len(gop_agrupados),
                            !.hallados = {gop_agrupados[k].gop_numero : k \in 1..Len(gop_agrupados)},
                            !.stats = EstadisticasIniciales(c.gop_list, gop_agrupados)]]
            /\ TASKS' = _report(TASKS, c, 0, Len(c.gop_list), 0, 0)
    /\ respuesta' = SinRespuesta
    /\ tx' = tx
    /\ SinCambiosBD

\* Lines 247-401: one number is applied in the session of the thread.
Aplicar(t) ==
    /\ corrida[t].pc = "aplicar"
    /\ corrida[t].grupos # <<>>
    /\ FilasUsadas(t, tx[t]) + Len(Head(corrida[t].grupos).lista_datos) <= MaxHist
    /\ \E falla \in FallasCorrida :
         \E o \in AplicarGrupo(t, tx[t], corrida[t], falla) :
            /\ tx' = [tx EXCEPT ![t] = o.s]
            /\ corrida' = [corrida EXCEPT ![t] = o.c]
            /\ TASKS' = _report(TASKS, o.c, o.c.curr, o.c.total, o.c.ok, o.c.fail)
    /\ respuesta' = SinRespuesta
    /\ SinCambiosBD

\* Lines 403-427: the final commit.  It publishes the pending writes, or it raises
\* and the general except returns the dict with 'error'.
CommitFinal(t) ==
    /\ corrida[t].pc = "aplicar"
    /\ corrida[t].grupos = <<>>
    /\ LET c == corrida[t] IN
       \/ /\ expedientes' = CommitExp(tx[t])
          /\ historial_bandejas' = CommitHist(tx[t])
          /\ corrida' = [corrida EXCEPT ![t] =
                            [c EXCEPT !.pc = "retorno", !.retorno = "stats", !.ultimo = SinAplicar]]
          /\ TASKS' = _report(TASKS, c, c.total, c.total, c.ok, c.fail)
       \/ /\ UNCHANGED <<expedientes, historial_bandejas>>
          /\ corrida' = [corrida EXCEPT ![t] =
                            [c EXCEPT !.pc = "retorno", !.retorno = "error", !.ultimo = SinAplicar,
                                      !.causa = "commit"]]
          /\ TASKS' = _report(TASKS, c, 0, 0, 0, 1)
    /\ tx' = [tx EXCEPT ![t] = SesionVacia]
    /\ respuesta' = SinRespuesta
    /\ UNCHANGED <<clasif, tabla_historial, hoy, ult, columnas, contexto, cola, fallidas, scraper>>

\* The rest of runner(): "done" when sync_gop_data returned, whatever it returned;
\* "error" when it raised.
runner_fin ==
    /\ corrida[HiloEjecutor].pc = "retorno"
    /\ LET c == corrida[HiloEjecutor] IN
       /\ TASKS' = [TASKS EXCEPT ![c.task_id].status =
                       IF c.retorno = "excepcion" THEN "error" ELSE "done"]
       /\ fallidas' = IF c.retorno \in {"error", "excepcion"} THEN fallidas \cup {c.task_id}
                      ELSE fallidas
       /\ corrida' = [corrida EXCEPT ![HiloEjecutor] = [CorridaInactiva EXCEPT !.numero = c.numero]]
    /\ respuesta' = SinRespuesta
    /\ UNCHANGED <<clasif, expedientes, historial_bandejas, tabla_historial, tx, hoy, ult,
                   columnas, contexto, cola, scraper>>

\* The rest of sincronizar_gop(): the message is flashed, the request ends and its
\* session is removed.
sincronizar_gop_fin ==
    /\ corrida[HiloPeticion].pc = "retorno"
    /\ corrida' = [corrida EXCEPT ![HiloPeticion] =
                      [CorridaInactiva EXCEPT !.numero = corrida[HiloPeticion].numero]]
    /\ tx' = [tx EXCEPT ![HiloPeticion] = SesionVacia]
    /\ respuesta' = SinRespuesta
    /\ UNCHANGED <<clasif, expedientes, historial_bandejas, tabla_historial, hoy, ult,
                   columnas, contexto, TASKS, cola, fallidas, scraper>>

\* The format a form of POST /expedientes/<id>/editar sends.
FormatosEdicion == {"Papel"}

\* POST /expedientes/<item_id>/editar in a request of its own: the format of the
\* case is changed and committed.  The row is not locked by the pending UPDATE of
\* another session.
actualizar_expediente ==
    \E item_id \in ExpIds, formato \in FormatosEdicion :
        /\ expedientes[item_id] # AUSENTE
        /\ expedientes[item_id].formato # formato
        /\ \A t \in Hilos : tx[t].exp[item_id] = SIN_ESCRIBIR
        /\ expedientes' = [expedientes EXCEPT ![item_id].formato = formato]
        /\ respuesta' = SinRespuesta
        /\ UNCHANGED <<clasif, historial_bandejas, tabla_historial, tx, hoy, ult,
                       columnas, contexto, TASKS, cola, corrida, fallidas, scraper>>

\* GET /gop/sync/status/<task_id>, answering only for tasks whose runner has started.
EstadoSoloIniciadas ==
    \E task_id \in TaskIds :
        /\ respuesta' = IF TASKS[task_id] = SIN_TAREA \/ TASKS[task_id].status = "queued"
                        THEN [codigo |-> 404, task_id |-> task_id]
                        ELSE [codigo |-> 200, task_id |-> task_id, estado |-> TASKS[task_id]]
        /\ UNCHANGED <<clasif, expedientes, historial_bandejas, tabla_historial, tx, hoy, ult,
                       columnas, contexto, TASKS, cola, corrida, fallidas, scraper>>
\* GET /gop/sync/status/<task_id>
gop_sync_status ==
    \E task_id \in TaskIds :
        /\ respuesta' = IF TASKS[task_id] = SIN_TAREA THEN [codigo |-> 404, task_id |-> task_id]
                        ELSE [codigo |-> 200, task_id |-> task_id, estado |-> TASKS[task_id]]
        /\ UNCHANGED <<clasif, expedientes, historial_bandejas, tabla_historial, tx, hoy, ult,
                       columnas, contexto, TASKS, cola, corrida, fallidas, scraper>>

Init ==
    /\ clasif = [usuario_gop |-> "", fuente |-> "", bandeja |-> SIN_RESULTADO]
    /\ \E segunda \in {FilaExpediente(GopDe(2), "Digital", FALSE),
                         FilaExpediente(GopDe(2), "Papel", FALSE),
                         FilaExpediente(GopDe(1) \o " ", "Digital", FALSE),
                         FilaExpediente(GopDe(1), "Digital", TRUE)} :
         expedientes = [i \in ExpIds |->
                           IF i = 1 THEN FilaExpediente(GopDe(1), "Digital", FALSE)
                           ELSE IF i = 2 THEN segunda
                           ELSE AUSENTE]
    /\ historial_bandejas = [i \in HistIds |-> AUSENTE]
    /\ tabla_historial \in BOOLEAN
    /\ tx = [t \in Hilos |-> SesionVacia]
    /\ hoy = 1
    /\ ult = SinLlamada
    /\ columnas \in BOOLEAN
    /\ contexto \in BOOLEAN
    /\ TASKS = [id \in TaskIds |-> SIN_TAREA]
    /\ cola = <<>>
    /\ corrida = [t \in Hilos |-> CorridaInactiva]
    /\ respuesta = SinRespuesta
    /\ fallidas = {}
    /\ scraper = SinScraper

Next ==
    \/ gop_sync
    \/ runner_inicio
    \/ sincronizar_gop
    \/ \E t \in Hilos : Listar(t)
    \/ \E t \in Hilos : Verificar(t)
    \/ \E t \in Hilos : Scrape(t)
    \/ \E t \in Hilos : Aplicar(t)
    \/ \E t \in Hilos : CommitFinal(t)
    \/ runner_fin
    \/ sincronizar_gop_fin
    \/ actualizar_expediente
    \/ gop_sync_status

Spec == Init /\ [][Next]_vars

(***************************************************************************)
(* The scraper alone: one call of _buscar_gops_especificos for each list   *)
(* of numbers and each portal.                                             *)
(***************************************************************************)
MaxGops == 2
MaxFilas == 2

\* gop_list: the first numbers, and a list with a number twice (two rows of
\* expedientes whose gop_numero differ in blanks only).
ListasScraper ==
    {[k \in 1..n |-> GopDe(k)] : n \in 1..MaxGops} \cup {<<GopDe(1), GopDe(1)>>}

\* The rows of the grid of "Mis Bandejas", in the order of the pages; one number
\* more than those searched can be shown.
FilasPosibles ==
    UNION {[1..k -> {FilaMisBandejas(GopDe(i)) : i \in 1..(MaxGops + 1)}] : k \in 0..MaxFilas}

EscenariosScraper(lista) ==
    {[arranque |-> a, mis_falla |-> FALSE, invertido |-> FALSE, filas |-> <<>>,
      todos |-> [n \in Elementos(lista) |-> "no_hallado"]] : a \in Arranques \ {"ok"}}
    \cup
    {[arranque |-> "ok", mis_falla |-> m, invertido |-> i, filas |-> f, todos |-> td]
       : m \in BOOLEAN, i \in BOOLEAN, f \in FilasPosibles,
         td \in [Elementos(lista) -> ResultadosTodos]}

InitScraper ==
    /\ InitBase
    /\ expedientes = [i \in ExpIds |-> AUSENTE]
    /\ tabla_historial = TRUE
    /\ scraper \in UNION {{[fase |-> "llamada", gop_list |-> lista, portal |-> e]
                             : e \in EscenariosScraper(lista)} : lista \in ListasScraper}

\* The call returns or raises.
BuscarGops ==
    /\ scraper.fase = "llamada"
    /\ scraper' = [fase |-> "retorno", gop_list |-> scraper.gop_list, portal |-> scraper.portal,
                   r |-> _buscar_gops_especificos(scraper.gop_list, scraper.portal)]
    /\ UNCHANGED <<clasif, expedientes, historial_bandejas, tabla_historial, tx, hoy, ult,
                   columnas, contexto, TASKS, cola, corrida, respuesta, fallidas>>

NextScraper == BuscarGops

SpecScraper == InitScraper /\ [][NextScraper]_vars

(***************************************************************************)
(* Properties of the queue classifier (SpecClasificador).                  *)
(***************************************************************************)
Clasificado == clasif.bandeja # SIN_RESULTADO

(***************************************************************************)
(* The pagination of "Mis Bandejas" alone: the while loop of               *)
(* _buscar_gops_en_pagina_multiple against a portal that chooses, at each  *)
(* iteration, the rows of the page and what each next-page control does.   *)
(***************************************************************************)
\* The ceiling of pages (the default of the parameter max_pages is 100).
max_pages == 3

\* The selectors of the next-page control, in the order they are tried.
NumCandidatos == 5
Candidatos == 1..NumCandidatos

\* What one candidate does:
\*   no_visible: the link is not visible or the locator raises;
\*   sin_cambio: it is clicked and the active-page indicator reads the same, or is
\*               empty or not visible;
\*   cambio: it is clicked and the indicator reads another number;
\*   sin_indicador: it is clicked and reading the indicator raises.
ResultadosClick == {"no_visible", "sin_cambio", "cambio", "sin_indicador"}

RECURSIVE _hay_siguiente_pagina_y_click(_, _)
\* The candidates are tried in order from k on; the first whose click changes the
\* indicator, or after whose click the indicator cannot be read, ends the loop with
\* avanzó = True; a click that leaves the indicator as it was goes on with the
\* next candidate.
_hay_siguiente_pagina_y_click(resultados, k) ==
    IF k > NumCandidatos THEN [avanzo |-> FALSE, probados |-> NumCandidatos]
    ELSE IF resultados[k] \in {"cambio", "sin_indicador"} THEN [avanzo |-> TRUE, probados |-> k]
    ELSE _hay_siguiente_pagina_y_click(resultados, k + 1)

SinClicks == [k \in Candidatos |-> "no_visible"]

\* What the candidates do in one call; the candidates after the one that ends the
\* loop are not tried, and count as not visible.
ClicksPosibles ==
    {r \in [Candidatos -> ResultadosClick] :
        \A k \in Candidatos :
            k > _hay_siguiente_pagina_y_click(r, 1).probados => r[k] = "no_visible"}

InitPaginas ==
    /\ InitBase
    /\ expedientes = [i \in ExpIds |-> AUSENTE]
    /\ tabla_historial = TRUE
    /\ scraper \in {[fase |-> "paginas", gops_buscados |-> lista, pendientes |-> Elementos(lista),
                     encontrados |-> <<>>, pagina_actual |-> 1, visitadas |-> 0,
                     motivo |-> "ninguno", clicks |-> SinClicks, probados |-> 0]
                       : lista \in ListasScraper}

\* One iteration of `while pendientes and pagina_actual <= max_pages`: the rows of
\* the page are scanned, and when numbers remain pending the next page is asked for.
IterarPagina ==
    /\ scraper.fase = "paginas"
    /\ scraper.pendientes # {}
    /\ scraper.pagina_actual <= max_pages
    /\ \E excepcion \in BOOLEAN, filas \in FilasPosibles, resultados \in ClicksPosibles :
          LET encontrados == _buscar_gops_en_pagina_multiple(scraper.pendientes, filas, scraper.encontrados)
              pendientes == Elementos(scraper.gops_buscados)
                               \ {encontrados[k].nro_sistema : k \in 1..Len(encontrados)}
              siguiente == _hay_siguiente_pagina_y_click(resultados, 1)
              visto == [scraper EXCEPT !.visitadas = @ + 1, !.clicks = SinClicks, !.probados = 0]
          IN  scraper' =
                IF excepcion
                THEN [visto EXCEPT !.fase = "fin", !.motivo = "excepcion"]
                ELSE IF pendientes = {}
                THEN [visto EXCEPT !.fase = "fin", !.motivo = "sin_pendientes",
                                   !.encontrados = encontrados, !.pendientes = pendientes]
                ELSE IF ~siguiente.avanzo
                THEN [visto EXCEPT !.fase = "fin", !.motivo = "sin_siguiente",
                                   !.encontrados = encontrados, !.pendientes = pendientes,
                                   !.clicks = resultados, !.probados = siguiente.probados]
                ELSE [visto EXCEPT !.encontrados = encontrados, !.pendientes = pendientes,
                                   !.pagina_actual = @ + 1,
                                   !.clicks = resultados, !.probados = siguiente.probados]
    /\ UNCHANGED <<clasif, expedientes, historial_bandejas, tabla_historial, tx, hoy, ult,
                   columnas, contexto, TASKS, cola, corrida, respuesta, fallidas>>

\* The condition of the while is false: the function returns encontrados.
FinDePaginas ==
    /\ scraper.fase = "paginas"
    /\ scraper.pendientes = {} \/ scraper.pagina_actual > max_pages
    /\ scraper' = [scraper EXCEPT !.fase = "fin", !.motivo = "tope"]
    /\ UNCHANGED <<clasif, expedientes, historial_bandejas, tabla_historial, tx, hoy, ult,
                   columnas, contexto, TASKS, cola, corrida, respuesta, fallidas>>

NextPaginas == IterarPagina \/ FinDePaginas

SpecPaginas == InitPaginas /\ [][NextPaginas]_vars
(***************************************************************************)
(* Protected navigation alone: the calls of _goto_protegido of one run of  *)
(* the scraper, against a portal that answers each navigation, login and   *)
(* wait as it likes.                                                       *)
(***************************************************************************)
\* The calls of _goto_protegido in one run of the scraper.
MaxLlamadas == 4

\* Where page.goto lands, or "excepcion" when it raises (timeout).
ResultadosGoto == {"destino", "login", "excepcion"}
\* _perform_login followed by wait_for_load_state: both return, or one raises.
ResultadosLogin == {"retorna", "excepcion"}
\* wait_for_load_state and wait_for_selector of _ensure_logged_in.
ResultadosEspera == {"ok", "excepcion"}

\* A call that has just been entered; previas holds how the earlier calls ended.
LlamadaNueva(previas) ==
    [fase |-> "goto", previas |-> previas, url |-> "otra", primera |-> "ninguna", gotos |-> 0,
     logins |-> 0, login |-> "ninguno", resultado |-> "ninguno"]

InitNavegacion ==
    /\ InitBase
    /\ expedientes = [i \in ExpIds |-> AUSENTE]
    /\ tabla_historial = TRUE
    /\ scraper = LlamadaNueva(<<>>)

\* page.goto, with a landing on the login path always sent to the re-login.
NavegarReintentando ==
    /\ scraper.fase = "goto"
    /\ \E r \in ResultadosGoto :
          LET s == [scraper EXCEPT !.gotos = @ + 1,
                                   !.primera = IF scraper.gotos = 0 THEN r ELSE @]
          IN  scraper' =
                IF r = "excepcion" THEN [s EXCEPT !.fase = "fin", !.resultado = "excepcion"]
                ELSE IF r = "login" /\ scraper.logins < MaxLlamadas
                THEN [s EXCEPT !.fase = "login", !.url = r]
                ELSE [s EXCEPT !.fase = "ensure", !.url = r]
    /\ UNCHANGED <<clasif, expedientes, historial_bandejas, tabla_historial, tx, hoy, ult,
                   columnas, contexto, TASKS, cola, corrida, respuesta, fallidas>>

\* page.goto(url): the first navigation goes to the re-login when it lands on the
\* login path; the navigation after the re-login goes on to _ensure_logged_in
\* wherever it lands.
Navegar ==
    /\ scraper.fase = "goto"
    /\ \E r \in ResultadosGoto :
          LET s == [scraper EXCEPT !.gotos = @ + 1,
                                   !.primera = IF scraper.gotos = 0 THEN r ELSE @]
          IN  scraper' =
                IF r = "excepcion" THEN [s EXCEPT !.fase = "fin", !.resultado = "excepcion"]
                ELSE IF r = "login" /\ scraper.gotos = 0
                THEN [s EXCEPT !.fase = "login", !.url = r]
                ELSE [s EXCEPT !.fase = "ensure", !.url = r]
    /\ UNCHANGED <<clasif, expedientes, historial_bandejas, tabla_historial, tx, hoy, ult,
                   columnas, contexto, TASKS, cola, corrida, respuesta, fallidas>>

\* _perform_login(page, user, pw) and page.wait_for_load_state("networkidle").
Relogin ==
    /\ scraper.fase = "login"
    /\ \E r \in ResultadosLogin :
          scraper' = IF r = "excepcion"
                     THEN [scraper EXCEPT !.logins = @ + 1, !.login = r,
                                          !.fase = "fin", !.resultado = "excepcion"]
                     ELSE [scraper EXCEPT !.logins = @ + 1, !.login = r, !.fase = "goto"]
    /\ UNCHANGED <<clasif, expedientes, historial_bandejas, tabla_historial, tx, hoy, ult,
                   columnas, contexto, TASKS, cola, corrida, respuesta, fallidas>>

\* _ensure_logged_in(page): raises on the login path or when no mark of an open
\* session appears.
_ensure_logged_in ==
    /\ scraper.fase = "ensure"
    /\ \E carga \in ResultadosEspera, marca \in ResultadosEspera :
          scraper' = [scraper EXCEPT
                         !.fase = "fin",
                         !.resultado = IF carga = "ok" /\ scraper.url # "login" /\ marca = "ok"
                                       THEN "ok" ELSE "excepcion"]
    /\ UNCHANGED <<clasif, expedientes, historial_bandejas, tabla_historial, tx, hoy, ult,
                   columnas, contexto, TASKS, cola, corrida, respuesta, fallidas>>

\* The caller catches the exception of a failed navigation and goes on to its next
\* navigation: a new call of _goto_protegido.
_goto_protegido ==
    /\ scraper.fase = "fin"
    /\ Len(scraper.previas) + 1 < MaxLlamadas
    /\ scraper' = LlamadaNueva(Append(scraper.previas, scraper.resultado))
    /\ UNCHANGED <<clasif, expedientes, historial_bandejas, tabla_historial, tx, hoy, ult,
                   columnas, contexto, TASKS, cola, corrida, respuesta, fallidas>>

NextNavegacion == Navegar \/ Relogin \/ _ensure_logged_in \/ _goto_protegido

SpecNavegacion == InitNavegacion /\ [][NextNavegacion]_vars
(***************************************************************************)
(* Date parsing alone: _parsear_fecha over the two date strings of a       *)
(* scraped record, and the date fields the apply step derives from them.   *)
(***************************************************************************)
Digitos == <<"0", "1", "2", "3", "4", "5", "6", "7", "8", "9">>
EsDigito(c) == \E i \in 1..Len(Digitos) : Digitos[i] = c
ValorDigito(c) == (CHOOSE i \in 1..Len(Digitos) : Digitos[i] = c) - 1
SoloDigitos(s) == s # "" /\ \A i \in 1..Len(s) : EsDigito(SubSeq(s, i, i))

RECURSIVE Numero(_, _)
\* int() of a string of digits.
Numero(s, acc) ==
    IF s = "" THEN acc
    ELSE Numero(SubSeq(s, 2, Len(s)), acc * 10 + ValorDigito(SubSeq(s, 1, 1)))

RECURSIVE Partes(_, _, _)
\* s.split(sep), for a separator of one character.
Partes(s, sep, actual) ==
    IF s = "" THEN <<actual>>
    ELSE IF SubSeq(s, 1, 1) = sep THEN <<actual>> \o Partes(SubSeq(s, 2, Len(s)), sep, "")
    ELSE Partes(SubSeq(s, 2, Len(s)), sep, actual \o SubSeq(s, 1, 1))

\* None, and the ValueError of datetime.strptime.
NULL_FECHA == [fecha |-> "None"]
VALUE_ERROR == [fecha |-> "ValueError"]

Bisiesto(anio) == (anio % 4 = 0 /\ anio % 100 # 0) \/ anio % 400 = 0
DiasDelMes(anio, mes) ==
    CASE mes \in {4, 6, 9, 11} -> 30
      [] mes = 2 -> IF Bisiesto(anio) THEN 29 ELSE 28
      [] OTHER -> 31

\* The date of the directives %Y, %m and %d: four digits of year, one or two of
\* month and of day, and a day the month has; ValueError otherwise.
Fecha(a, m, d) ==
    IF /\ SoloDigitos(a) /\ Len(a) = 4
       /\ SoloDigitos(m) /\ Len(m) <= 2
       /\ SoloDigitos(d) /\ Len(d) <= 2
    THEN LET anio == Numero(a, 0)
             mes == Numero(m, 0)
             dia == Numero(d, 0)
         IN  IF anio >= 1 /\ mes \in 1..12 /\ dia >= 1 /\ dia <= DiasDelMes(anio, mes)
             THEN [anio |-> anio, mes |-> mes, dia |-> dia]
             ELSE VALUE_ERROR
    ELSE VALUE_ERROR

\* '%Y-%m-%d', '%d/%m/%Y', '%d-%m-%Y', '%Y-%m-%d %H:%M:%S'
Formatos ==
    <<[sep |-> "-", anio_primero |-> TRUE, hora |-> FALSE],
      [sep |-> "/", anio_primero |-> FALSE, hora |-> FALSE],
      [sep |-> "-", anio_primero |-> FALSE, hora |-> FALSE],
      [sep |-> "-", anio_primero |-> TRUE, hora |-> TRUE]>>

FechaSegun(s, fmt) ==
    LET p == Partes(s, fmt.sep, "") IN
    IF Len(p) # 3 THEN VALUE_ERROR
    ELSE IF fmt.anio_primero THEN Fecha(p[1], p[2], p[3])
    ELSE Fecha(p[3], p[2], p[1])

\* %H:%M:%S
HoraValida(s) ==
    LET p == Partes(s, ":", "") IN
    /\ Len(p) = 3
    /\ \A k \in 1..3 : SoloDigitos(p[k]) /\ Len(p[k]) <= 2
    /\ Numero(p[1], 0) <= 23 /\ Numero(p[2], 0) <= 59 /\ Numero(p[3], 0) <= 61

\* datetime.strptime(s, fmt).date(): the whole string has to match the format.
strptime(s, fmt) ==
    IF fmt.hora
    THEN LET p == Partes(s, " ", "") IN
         IF Len(p) = 2 /\ HoraValida(p[2]) THEN FechaSegun(p[1], fmt) ELSE VALUE_ERROR
    ELSE FechaSegun(s, fmt)

RECURSIVE IntentarSinCapturar(_, _)
\* The loop over the formats with the ValueError of the datetime branch not caught.
IntentarSinCapturar(s, k) ==
    IF k > Len(Formatos) THEN [valor |-> NULL_FECHA, excepcion |-> FALSE]
    ELSE IF Contiene(s, "T") \/ Contiene(s, ":")
    THEN LET r == strptime(Truncar(s, 10), Formatos[1]) IN
         [valor |-> IF r = VALUE_ERROR THEN NULL_FECHA ELSE r, excepcion |-> r = VALUE_ERROR]
    ELSE LET r == strptime(s, Formatos[k]) IN
         IF r = VALUE_ERROR THEN IntentarSinCapturar(s, k + 1)
         ELSE [valor |-> r, excepcion |-> FALSE]

RECURSIVE IntentarFormatos(_, _)
\* The loop over the formats from the k-th on: a string with 'T' or ':' is parsed
\* from its first 10 characters as '%Y-%m-%d', any other string with the format;
\* a ValueError goes on with the next format, and None is returned after the last.
IntentarFormatos(s, k) ==
    IF k > Len(Formatos) THEN [valor |-> NULL_FECHA, excepcion |-> FALSE]
    ELSE LET r == IF Contiene(s, "T") \/ Contiene(s, ":")
                  THEN strptime(Truncar(s, 10), Formatos[1])
                  ELSE strptime(s, Formatos[k])
         IN  IF r = VALUE_ERROR THEN IntentarFormatos(s, k + 1)
             ELSE [valor |-> r, excepcion |-> FALSE]

\* _parsear_fecha(fecha_str): valor is the date or None it returns; excepcion tells
\* that it raised instead.
_parsear_fecha(fecha_str) ==
    IF fecha_str = "" \/ strip(fecha_str) \in {"", "nan", "None"}
    THEN [valor |-> NULL_FECHA, excepcion |-> FALSE]
    ELSE IntentarFormatos(strip(fecha_str), 1)

RECURSIVE Cifras(_, _)
\* n written with `ancho` digits.
Cifras(n, ancho) ==
    IF ancho = 0 THEN "" ELSE Cifras(n \div 10, ancho - 1) \o Digitos[(n % 10) + 1]

\* date.isoformat()
isoformat(d) == Cifras(d.anio, 4) \o "-" \o Cifras(d.mes, 2) \o "-" \o Cifras(d.dia, 2)

\* Dates the portal can show.
FechasPrueba ==
    {[anio |-> 2024, mes |-> 3, dia |-> 5], [anio |-> 2024, mes |-> 2, dia |-> 29],
     [anio |-> 2023, mes |-> 12, dia |-> 31]}

\* Cells that hold no date.
Basura ==
    {"", " ", "nan", "None", "not-a-date", "T", "05/03/2024 10:30", "2023-02-29", "2024-13-01"}

\* What the cells 'fecha_entrada' and 'fecha_en_bandeja' of a row can hold.
CeldasFecha ==
    Basura \cup {isoformat(d) : d \in FechasPrueba}
           \cup {"05/03/2024", "05-03-2024", "2024-03-05 10:30:00", "2024-03-05T10:30:00",
                 " 2024-03-05 ", "2024-3-5"}

InitFechas ==
    /\ InitBase
    /\ expedientes = [i \in ExpIds |-> AUSENTE]
    /\ tabla_historial = TRUE
    /\ scraper \in {[fase |-> "fechas", fecha_entrada |-> e, fecha_en_bandeja |-> b]
                       : e \in CeldasFecha, b \in CeldasFecha}

\* Python's `a or b` for dates and None.
O_fecha(a, b) == IF a # NULL_FECHA THEN a ELSE b

\* The dates of the apply step for one record: the per-queue date and the legacy
\* GOP dates; an exception of _parsear_fecha would leave the iteration.
ParsearFechas ==
    /\ scraper.fase = "fechas"
    /\ LET fecha_entrada == _parsear_fecha(scraper.fecha_entrada)
           fecha_en_bandeja == _parsear_fecha(scraper.fecha_en_bandeja)
           excepcion == fecha_entrada.excepcion \/ fecha_en_bandeja.excepcion
       IN  scraper' = [fase |-> "aplicado",
                       fecha_entrada |-> scraper.fecha_entrada,
                       fecha_en_bandeja |-> scraper.fecha_en_bandeja,
                       excepcion |-> excepcion,
                       bandeja_fecha |-> O_fecha(fecha_en_bandeja.valor, fecha_entrada.valor),
                       gop_fecha_entrada |-> fecha_entrada.valor,
                       gop_fecha_en_bandeja |-> fecha_en_bandeja.valor]
    /\ UNCHANGED <<clasif, expedientes, historial_bandejas, tabla_historial, tx, hoy, ult,
                   columnas, contexto, TASKS, cola, corrida, respuesta, fallidas>>

NextFechas == ParsearFechas

SpecFechas == InitFechas /\ [][NextFechas]_vars
(***************************************************************************)
(* Deleting a case while the synchronisation writes its history: the       *)
(* request of POST /expedientes/<id>/eliminar in the web thread and the    *)
(* history update in the executor's thread, each in its own session.       *)
(***************************************************************************)
\* Ids of the committed history rows of a case: what the relationship
\* Expediente.historial_bandejas loads.
HistorialCargado(expediente_id) ==
    {h \in HistIds : /\ historial_bandejas[h] # AUSENTE
                     /\ historial_bandejas[h].expediente_id = expediente_id}

\* The session s has a pending write on the case or on a history row of it.
EscribePendiente(s, expediente_id) ==
    \/ s.exp[expediente_id] # SIN_ESCRIBIR
    \/ \E h \in HistIds : /\ s.hist[h] \notin {SIN_ESCRIBIR, AUSENTE}
                          /\ s.hist[h].expediente_id = expediente_id

\* The cases the web session has marked for deletion.
PorEliminar == {i \in ExpIds : tx[HiloPeticion].exp[i] = AUSENTE}

\* eliminar_expediente up to _db.session.delete(item): the case is loaded and
\* marked, and the delete cascade of the relationship loads and marks the history
\* rows the table holds.  Without the table the load raises and the request fails.
eliminar_expediente ==
    \E item_id \in ExpIds :
        /\ tabla_historial
        /\ tx[HiloPeticion] = SesionVacia
        /\ expedientes[item_id] # AUSENTE
        /\ tx' = [tx EXCEPT ![HiloPeticion] =
                     [exp |-> [i \in ExpIds |-> IF i = item_id THEN AUSENTE ELSE SIN_ESCRIBIR],
                      hist |-> [h \in HistIds |-> IF h \in HistorialCargado(item_id)
                                                  THEN AUSENTE ELSE SIN_ESCRIBIR]]]
        /\ ult' = SinLlamada
        /\ UNCHANGED <<clasif, expedientes, historial_bandejas, tabla_historial, hoy>>
        /\ UNCHANGED varsCorrida

\* _db.session.commit() of eliminar_expediente: the DELETEs of the marked rows run
\* once no other session holds a pending write on the case or its history.  When
\* the database enforces foreign keys (PostgreSQL; SQLite only with PRAGMA
\* foreign_keys, which the application does not set) ON DELETE CASCADE removes
\* every row of the case as well.
eliminar_expediente_commit ==
    \E item_id \in PorEliminar, claves_foraneas \in BOOLEAN :
        /\ \A t \in Hilos \ {HiloPeticion} : ~EscribePendiente(tx[t], item_id)
        /\ expedientes' = CommitExp(tx[HiloPeticion])
        /\ historial_bandejas' =
              [h \in HistIds |->
                  IF claves_foraneas /\ h \in HistorialCargado(item_id) THEN AUSENTE
                  ELSE CommitHist(tx[HiloPeticion])[h]]
        /\ tx' = [tx EXCEPT ![HiloPeticion] = SesionVacia]
        /\ ult' = SinLlamada
        /\ UNCHANGED <<clasif, tabla_historial, hoy>>
        /\ UNCHANGED varsCorrida

NextBorrado ==
    \/ HistorialTrasSincronizacion(HiloEjecutor, [e \in ExpIds |-> DatosLedgerModelo(e)],
                                   {"ninguna"}, CupoSync)
    \/ Commit(HiloEjecutor)
    \/ CrearTablaHistorial
    \/ eliminar_expediente
    \/ eliminar_expediente_commit

SpecBorrado == InitLedger /\ [][NextBorrado]_vars

(***************************************************************************)
(* The fee closings: /analisis-tasas/ejecutar and /analisis-tasas/cerrar   *)
(* (SpecCierres).  The fee columns of expedientes, the table cierres_tasas *)
(* and the cookie session of each browser are the fields of one record.    *)
(***************************************************************************)
MaxCierres == 2
SesionesWeb == {"navegador_a", "navegador_b"}
FechasSalida == {1, 2}
EstadosPago == {"pagado", "pendiente"}
\* A session without 'ultimo_analisis'.
SIN_ANALISIS == [resultado |-> [fecha_desde |-> NULL, fecha_hasta |-> NULL, expedientes_pagados |-> <<>>]]

\* The ids from i on of the paid cases of the period not included in a closing,
\* the rows of query_base filtered by estado_pago_visado == 'pagado'.
RECURSIVE PagadosDesde(_, _, _, _)
PagadosDesde(e, fecha_desde, fecha_hasta, i) ==
    IF i > MaxExp THEN <<>>
    ELSE (IF /\ e.fecha_salida[i] >= fecha_desde
             /\ e.fecha_salida[i] <= fecha_hasta
             /\ e.incluido_en_cierre_id[i] = NULL
             /\ e.estado_pago_visado[i] = "pagado"
          THEN <<i>> ELSE <<>>) \o PagadosDesde(e, fecha_desde, fecha_hasta, i + 1)

\* TasasAnalyzer.analizar_periodo: the part of the result crear_cierre reads.
analizar_periodo(e, fecha_desde, fecha_hasta) ==
    [fecha_desde |-> fecha_desde, fecha_hasta |-> fecha_hasta,
     expedientes_pagados |-> PagadosDesde(e, fecha_desde, fecha_hasta, 1)]

\* TasasAnalyzer.crear_cierre: the closing row with the ids of the analysis, the
\* UPDATE that marks those cases with its id, and the commit.
crear_cierre(e, analisis_datos) ==
    LET expedientes_ids == analisis_datos.expedientes_pagados
        cierre_id == Len(e.cierres_tasas) + 1
    IN  [e EXCEPT !.cierres_tasas = Append(@, [fecha_desde |-> analisis_datos.fecha_desde,
                                               fecha_hasta |-> analisis_datos.fecha_hasta,
                                               expedientes_incluidos |-> expedientes_ids]),
                  !.incluido_en_cierre_id =
                      [i \in ExpIds |-> IF \E k \in 1..Len(expedientes_ids) : expedientes_ids[k] = i
                                        THEN cierre_id ELSE @[i]]]

InitCierres ==
    /\ InitBase
    /\ expedientes = [i \in ExpIds |-> AUSENTE]
    /\ tabla_historial = TRUE
    /\ scraper \in {[fase |-> "cierres", fecha_salida |-> f, estado_pago_visado |-> p,
                     incluido_en_cierre_id |-> [i \in ExpIds |-> NULL],
                     cierres_tasas |-> <<>>,
                     session |-> [s \in SesionesWeb |-> SIN_ANALISIS]]
                       : f \in [ExpIds -> FechasSalida], p \in [ExpIds -> EstadosPago]}

\* POST /analisis-tasas/ejecutar in one browser: the analysis of a period with
\* fecha_desde <= fecha_hasta is stored in session['ultimo_analisis'].
ejecutar_analisis_tasas ==
    /\ scraper.fase = "cierres"
    /\ \E sesion \in SesionesWeb, fecha_desde \in FechasSalida, fecha_hasta \in FechasSalida :
          /\ fecha_desde <= fecha_hasta
          /\ scraper' = [scraper EXCEPT !.session[sesion] =
                            [resultado |-> analizar_periodo(scraper, fecha_desde, fecha_hasta)]]
    /\ UNCHANGED <<clasif, expedientes, historial_bandejas, tabla_historial, tx, hoy, ult,
                   columnas, contexto, TASKS, cola, corrida, respuesta, fallidas>>

\* POST /analisis-tasas/cerrar in one browser: with an analysis in the session that
\* has paid cases, the closing is created from the stored analysis and the analysis
\* is removed from the session.
cerrar_analisis_tasas ==
    /\ scraper.fase = "cierres"
    /\ Len(scraper.cierres_tasas) < MaxCierres
    /\ \E sesion \in SesionesWeb :
          LET ultimo_analisis == scraper.session[sesion] IN
          /\ ultimo_analisis # SIN_ANALISIS
          /\ ultimo_analisis.resultado.expedientes_pagados # <<>>
          /\ scraper' = [crear_cierre(scraper, ultimo_analisis.resultado)
                            EXCEPT !.session[sesion] = SIN_ANALISIS]
    /\ UNCHANGED <<clasif, expedientes, historial_bandejas, tabla_historial, tx, hoy, ult,
                   columnas, contexto, TASKS, cola, corrida, respuesta, fallidas>>

NextCierres == ejecutar_analisis_tasas \/ cerrar_analisis_tasas

SpecCierres == InitCierres /\ [][NextCierres]_vars

(***************************************************************************)
(* Who may change the stored cases: the before-request filter, the         *)
(* login_required decorator and the handlers of the state-changing routes  *)
(* (SpecAcceso).                                                           *)
(***************************************************************************)
MaxSincronizaciones == 2
AccIds == 1..2
\* A client that is not logged in, a logged-in user without es_admin, an admin.
Usuarios == {"anonimo", "limitado", "admin"}
is_authenticated(current_user) == current_user # "anonimo"
es_admin(current_user) == current_user = "admin"

FORMATO_PERMITIDOS == {"Papel", "Digital"}
PROFESIONES_PERMITIDAS == {"Ingeniero/a", "Licenciado/a", "Maestro Mayor de Obras", "Técnico/a"}

\* str.title() on the format texts of the forms.
title(s) ==
    CASE s = "papel" -> "Papel"
      [] s = "digital" -> "Digital"
      [] OTHER -> s

Formularios == [profesion : {"Ingeniero/a", "Abogado/a"}, formato : {"papel", "Digital", "Otro"},
                en_oficina_tecnica : BOOLEAN]

\* The routes that write, by endpoint name.
Endpoints == {"crear_expediente", "actualizar_expediente", "eliminar_expediente",
              "actualizar_oficina_tecnica", "finalizar_expediente", "reactivar_expediente",
              "gop_sync", "sincronizar_gop"}

\* The routes among them decorated with @login_required.
ConLoginRequired == {"crear_expediente"}

\* The endpoints a logged-in non-admin user is allowed.
permitidos == {"analisis_tasas", "exportar_analisis_tasas", "ver_cierre_tasas", "balance",
               "login", "logout", "perfil", "cambiar_password", "home"}



\* str.startswith.
startswith(s, prefijo) == Len(s) >= Len(prefijo) /\ SubSeq(s, 1, Len(prefijo)) = prefijo

\* The before_request filter: it returns None ("pasa") or the redirect.
_limitar_no_admin(current_user, ep) ==
    IF ~is_authenticated(current_user) THEN "pasa"
    ELSE IF es_admin(current_user) THEN "pasa"
    ELSE IF ep \in permitidos \/ startswith(ep, "static") THEN "pasa"
    ELSE "redirect_analisis_tasas"

FilaAcceso(profesion, formato) ==
    [profesion |-> profesion, formato |-> formato, finalizado |-> FALSE, en_oficina_tecnica |-> FALSE]

\* The handler of endpoint ep on case item_id with the form data: the stored data
\* after it and its response.
Manejador(d, ep, item_id, data) ==
    LET item == d.expedientes[item_id]
        formato == title(data.formato)
        no_hay == [datos |-> d, resultado |-> "404"]
        invalido == [datos |-> d, resultado |-> "redirect_formulario"]
        hecho(fila) == [datos |-> [d EXCEPT !.expedientes[item_id] = fila], resultado |-> "ejecutado"]
    IN  CASE ep = "crear_expediente" ->
                IF data.profesion \notin PROFESIONES_PERMITIDAS \/ formato \notin FORMATO_PERMITIDOS
                THEN invalido
                ELSE IF item # AUSENTE THEN invalido
                ELSE hecho(FilaAcceso(data.profesion, formato))
          [] ep = "actualizar_expediente" ->
                IF item = AUSENTE THEN no_hay
                ELSE IF data.profesion \notin PROFESIONES_PERMITIDAS \/ formato \notin FORMATO_PERMITIDOS
                THEN invalido
                ELSE hecho([item EXCEPT !.profesion = data.profesion, !.formato = formato])
          [] ep = "eliminar_expediente" ->
                IF item = AUSENTE THEN no_hay ELSE hecho(AUSENTE)
          [] ep = "actualizar_oficina_tecnica" ->
                IF item = AUSENTE THEN no_hay
                ELSE hecho([item EXCEPT !.en_oficina_tecnica = data.en_oficina_tecnica])
          [] ep = "finalizar_expediente" ->
                IF item = AUSENTE THEN no_hay ELSE hecho([item EXCEPT !.finalizado = TRUE])
          [] ep = "reactivar_expediente" ->
                IF item = AUSENTE THEN no_hay ELSE hecho([item EXCEPT !.finalizado = FALSE])
          [] OTHER ->
                [datos |-> [d EXCEPT !.sincronizaciones = @ + 1], resultado |-> "ejecutado"]

\* One request: the filter, then the decorator, then the handler.
Despachar(d, current_user, ep, item_id, data) ==
    IF _limitar_no_admin(current_user, ep) # "pasa"
    THEN [datos |-> d, resultado |-> "redirect_analisis_tasas"]
    ELSE IF ep \in ConLoginRequired /\ ~is_authenticated(current_user)
    THEN [datos |-> d, resultado |-> "redirect_login"]
    ELSE Manejador(d, ep, item_id, data)

InitAcceso ==
    /\ InitBase
    /\ expedientes = [i \in ExpIds |-> AUSENTE]
    /\ tabla_historial = TRUE
    /\ scraper = [fase |-> "acceso",
                  datos |-> [expedientes |-> [i \in AccIds |-> IF i = 1 THEN FilaAcceso("Ingeniero/a", "Papel")
                                                                       ELSE AUSENTE],
                             sincronizaciones |-> 0],
                  ultima |-> [current_user |-> "admin", endpoint |-> "login", resultado |-> "ejecutado"]]

\* A request of any client to one of the routes that write.
Peticion ==
    /\ scraper.fase = "acceso"
    /\ \E current_user \in Usuarios, ep \in Endpoints, item_id \in AccIds, data \in Formularios :
          LET r == Despachar(scraper.datos, current_user, ep, item_id, data) IN
          /\ r.datos.sincronizaciones <= MaxSincronizaciones
          /\ scraper' = [scraper EXCEPT !.datos = r.datos,
                                        !.ultima = [current_user |-> current_user, endpoint |-> ep,
                                                    resultado |-> r.resultado]]
    /\ UNCHANGED <<clasif, expedientes, historial_bandejas, tabla_historial, tx, hoy, ult,
                   columnas, contexto, TASKS, cola, corrida, respuesta, fallidas>>

NextAcceso == Peticion

SpecAcceso == InitAcceso /\ [][NextAcceso]_vars
\* C6: whatever the assigned-user text, a record from "Todos los Trámites" is
\* classified 'profesional'.
C6_TodosLosTramitesEsProfesional ==
    (Clasificado /\ clasif.fuente = TODOS_LOS_TRAMITES) => clasif.bandeja = "profesional"

\* C6 witness: a text naming an imlauer keyword, from "Todos los Trámites", classified.
C6_Testigo ==
    /\ Clasificado
    /\ clasif.fuente = TODOS_LOS_TRAMITES
    /\ clasif.usuario_gop = "FERNANDO IMLAUER"
    /\ clasif.bandeja = "profesional"

PalabrasDe(b) ==
    CASE b = "cpim" -> PalabrasCpim [] b = "imlauer" -> PalabrasImlauer
      [] b = "onetto" -> PalabrasOnetto [] OTHER -> {}

\* The text, in lower case, contains a keyword of queue b.
Coincide(texto, b) == \E palabra \in PalabrasDe(b) : Contiene(lower(texto), palabra)

\* C7 as stated: under "Mis Bandejas" a text that matches a queue's keyword set is
\* classified into that queue, whatever its letter case.
C7_CoincidenciaDaEsaBandeja ==
    (Clasificado /\ clasif.fuente = MIS_BANDEJAS) =>
        \A b \in {"cpim", "imlauer", "onetto"} :
            Coincide(clasif.usuario_gop, b) => clasif.bandeja = b

\* C7 amended: under "Mis Bandejas" the result is the first of cpim, imlauer, onetto
\* whose keyword set the text matches, whatever its letter case, and 'profesional'
\* when none matches.
C7_PrimeraCoincidencia ==
    (Clasificado /\ clasif.fuente = MIS_BANDEJAS) =>
        /\ Coincide(clasif.usuario_gop, "cpim") => clasif.bandeja = "cpim"
        /\ (~Coincide(clasif.usuario_gop, "cpim") /\ Coincide(clasif.usuario_gop, "imlauer"))
              => clasif.bandeja = "imlauer"
        /\ (~Coincide(clasif.usuario_gop, "cpim") /\ ~Coincide(clasif.usuario_gop, "imlauer")
              /\ Coincide(clasif.usuario_gop, "onetto")) => clasif.bandeja = "onetto"
        /\ (\A b \in {"cpim", "imlauer", "onetto"} : ~Coincide(clasif.usuario_gop, b))
              => clasif.bandeja = "profesional"

\* C7 witness: an upper-case text matching both the imlauer and the cpim set.
C7_Testigo ==
    /\ Clasificado
    /\ clasif.fuente = MIS_BANDEJAS
    /\ clasif.usuario_gop = "FERNANDO CPIM"
    /\ clasif.bandeja = "cpim"

(***************************************************************************)
(* Properties of the history ledger (SpecLedger, SpecLedgerSync).          *)
(***************************************************************************)
SesionLedger == tx[HiloLedger]

\* Over the rows H a session reads: the open intervals of a case and queue, the rows.
NumAbiertosEn(H, expediente_id, bandeja_tipo) ==
    Cardinality({i \in HistIds : /\ H[i] # AUSENTE
                                 /\ H[i].expediente_id = expediente_id
                                 /\ H[i].bandeja_tipo = bandeja_tipo
                                 /\ H[i].fecha_fin = NULL})
NumFilasEn(H) == Cardinality({i \in HistIds : H[i] # AUSENTE})
NumAbiertos(s, expediente_id, bandeja_tipo) == NumAbiertosEn(VerHist(s), expediente_id, bandeja_tipo)

\* C1: for every expediente and queue at most one row has fecha_fin NULL, in the
\* committed table and in what every session reads.
C1_UnSoloIntervaloAbierto ==
    \A t \in Hilos, expediente_id \in ExpIds, b \in Bandejas :
        /\ NumAbiertos(tx[t], expediente_id, b) <= 1
        /\ NumAbiertos(SesionVacia, expediente_id, b) <= 1

\* The last step was a history update of the synchronisation that ran to its end
\* for one queue with a label.
SyncObservo ==
    /\ ult.op = "sync"
    /\ ult.efectos \in {<<"entro">>, <<"cambio">>, <<"igual">>}

DatoUlt == ult.datos[1]

\* C3: after a history update that observes the case in queue B only, no interval
\* of another queue is left open for the case, every closed interval has a
\* duration >= 0, and B has exactly one open interval.
C3_TransicionCierraLaAnterior ==
    SyncObservo =>
        /\ NumAbiertos(SesionLedger, ult.expediente_id, DatoUlt.bandeja_tipo) = 1
        /\ \A b \in Bandejas \ {DatoUlt.bandeja_tipo} :
               NumAbiertos(SesionLedger, ult.expediente_id, b) = 0
        /\ \A i \in HistIds :
               (VerHist(SesionLedger)[i] # AUSENTE /\ VerHist(SesionLedger)[i].fecha_fin # NULL)
                   => VerHist(SesionLedger)[i].dias_en_bandeja >= 0

SinFallo(efectos) == efectos \notin {<<"rollback">>, <<"fallo_insert">>}

RefrescoDeDetalle(antes, u, id) ==
    /\ u.op = "sync"
    /\ SinFallo(u.efectos)
    /\ u.datos[1].nombre # ""
    /\ antes[id] # AUSENTE
    /\ antes[id].expediente_id = u.expediente_id
    /\ antes[id].bandeja_tipo = u.datos[1].bandeja_tipo
    /\ antes[id].fecha_fin = NULL
    /\ \/ antes[id].bandeja_nombre # u.datos[1].nombre
       \/ antes[id].usuario_asignado # u.datos[1].usuario

BandejaEsperada(datos) ==
    IF datos.fuente = TODOS_LOS_TRAMITES THEN "profesional"
    ELSE IF Coincide(datos.usuario_asignado, "cpim") THEN "cpim"
    ELSE IF Coincide(datos.usuario_asignado, "imlauer") THEN "imlauer"
    ELSE IF Coincide(datos.usuario_asignado, "onetto") THEN "onetto"
    ELSE "profesional"

\* C8: when the apply step of a found case has succeeded, the case's fields of the
\* record's queue are populated, the fields of the other three queues are null and
\* expedientes_actualizados is one more than before the step.
C8_ResultadoDeAplicar ==
    \A t \in Hilos :
        corrida[t].ultimo.aplicado =>
            LET u == corrida[t].ultimo
                fila == VerExp(tx[t])[u.expediente_id]
                b == BandejaEsperada(u.datos)
            IN  /\ fila.bandejas[b].nombre = u.datos.bandeja_actual
                /\ fila.bandejas[b].usuario = IF u.datos.fuente = TODOS_LOS_TRAMITES THEN "Profesional"
                                              ELSE u.datos.usuario_asignado
                /\ fila.bandejas[b].sincronizacion # NULL
                /\ \A otra \in Bandejas \ {b} : fila.bandejas[otra] = BandejaVacia
                /\ corrida[t].stats.expedientes_actualizados = u.actualizados_antes + 1

\* C9: when the final commit of a run succeeds and the run returns its stats, every
\* case the run counted in expedientes_actualizados has in the table the per-queue
\* and legacy fields the run wrote for it.
C9_CommitPersisteLoContado ==
    [][\A t \in Hilos :
          (/\ corrida[t].pc = "aplicar"
           /\ corrida'[t].pc = "retorno"
           /\ corrida'[t].retorno = "stats") =>
              \A c \in corrida[t].contados :
                  /\ expedientes'[c.expediente_id] # AUSENTE
                  /\ expedientes'[c.expediente_id].bandejas = c.bandejas
                  /\ expedientes'[c.expediente_id].gop = c.gop]_vars

ScraperRetorno == scraper.fase = "retorno" /\ ~scraper.r.excepcion

\* The numbers with a record of the given view in the result.
NumerosDe(resultados, fuente) ==
    {resultados[k].nro_sistema : k \in {j \in 1..Len(resultados) : resultados[j].fuente = fuente}}

\* How many records the result has for a number.
NumRegistros(resultados, nro) == Cardinality({k \in 1..Len(resultados) : resultados[k].nro_sistema = nro})

\* C14: when the call returns, every number left pending after "Mis Bandejas" has
\* been searched in "Todos los Trámites", and every such number whose filtered grid
\* shows its row has its record in the result, whatever happened to the searches
\* of the other numbers.
C14_FalloDeUnoNoAfectaAlResto ==
    ScraperRetorno =>
        LET r == scraper.r
            pendientes == Elementos(scraper.gop_list) \ NumerosDe(r.resultados, MIS_BANDEJAS)
        IN  \A n \in pendientes :
                /\ \E k \in 1..Len(r.buscados) : r.buscados[k] = n
                /\ scraper.portal.todos[n] = "hallado" =>
                       \E k \in 1..Len(r.resultados) : r.resultados[k] = FilaTodos(n)

\* C19: a number with a record from "Mis Bandejas" is not searched in "Todos los
\* Trámites"; every submitted number has at most one record in the result, so
\* never one of each view.
C19_PrimeroMisBandejas ==
    ScraperRetorno =>
        LET r == scraper.r IN
        /\ \A n \in NumerosDe(r.resultados, MIS_BANDEJAS) :
               /\ \A k \in 1..Len(r.buscados) : r.buscados[k] # n
               /\ n \notin NumerosDe(r.resultados, TODOS_LOS_TRAMITES)
        /\ \A n \in Elementos(scraper.gop_list) : NumRegistros(r.resultados, n) <= 1
        /\ \A k \in 1..Len(r.resultados) : r.resultados[k].nro_sistema \in Elementos(scraper.gop_list)

\* C19 witness: a number shown twice in "Mis Bandejas" that "Todos los Trámites"
\* would show too has one record, from "Mis Bandejas"; the other number was
\* searched and found in "Todos los Trámites".
C19_Testigo ==
    /\ ScraperRetorno
    /\ scraper.gop_list = <<GopDe(1), GopDe(2)>>
    /\ scraper.portal.filas = <<FilaMisBandejas(GopDe(1)), FilaMisBandejas(GopDe(1))>>
    /\ scraper.portal.todos[GopDe(1)] = "hallado"
    /\ scraper.r.resultados = <<FilaMisBandejas(GopDe(1)), FilaTodos(GopDe(2))>>
    /\ scraper.r.buscados = <<GopDe(2)>>

(***************************************************************************)
(* Properties of the steps of a run (Spec).                                *)
(***************************************************************************)
FatalesAntesDeEscribir == {"columnas", "navegador", "credenciales", "login"}

\* C11: a run that has not reached the apply loop has written nothing; when the
\* per-queue columns are missing no run goes on to the scraper; and the step in
\* which the columns are found missing or the scraper raises (browser,
\* credentials, login) returns the dict with 'error' and leaves the tables and
\* the session of the run as they were, without pending writes.
C11_FatalAbortaSinEscribir ==
    [][\A t \in Hilos :
          /\ corrida[t].pc \in {"listar", "verificar", "scrape"} => tx[t] = SesionVacia
          /\ ~columnas => corrida'[t].pc \notin {"scrape", "aplicar"}
          /\ (corrida[t].pc # "retorno" /\ corrida'[t].pc = "retorno"
                /\ corrida'[t].causa \in FatalesAntesDeEscribir) =>
                /\ corrida'[t].retorno = "error"
                /\ corrida'[t].contados = {}
                /\ tx'[t] = SesionVacia
                /\ expedientes' = expedientes
                /\ historial_bandejas' = historial_bandejas]_vars

\* C11 witness: a run that listed numbers has ended with 'error' because the login
\* failed, and its session holds no pending write.
C11_Testigo ==
    \E t \in Hilos :
        /\ corrida[t].pc = "retorno" /\ corrida[t].retorno = "error"
        /\ corrida[t].causa = "login"
        /\ corrida[t].gop_list # <<>>
        /\ tx[t] = SesionVacia

\* The rows of the history of a case, in the table and pending in the sessions.
HistorialDe(H, sesiones, expediente_id) ==
    [h \in HistIds |->
        [tabla |-> IF H[h] # AUSENTE /\ H[h].expediente_id = expediente_id THEN H[h] ELSE AUSENTE,
         pendiente |-> [t \in Hilos |->
                           IF sesiones[t].hist[h] \notin {SIN_ESCRIBIR, AUSENTE}
                              /\ sesiones[t].hist[h].expediente_id = expediente_id
                           THEN sesiones[t].hist[h] ELSE AUSENTE]]]

C13_ExcepcionNoCortaLaCorrida ==
    [][\A t \in Hilos :
          /\ (corrida'[t].curr = corrida[t].curr + 1 /\ corrida'[t].ultimo.paso = "excepcion") =>
                /\ corrida'[t].stats.errores = corrida[t].stats.errores + 1
                /\ corrida'[t].fail = corrida[t].fail + 1
                /\ corrida'[t].ok = corrida[t].ok
                /\ corrida'[t].pc = "aplicar" /\ corrida'[t].retorno = "ninguno"
                /\ corrida'[t].grupos = Tail(corrida[t].grupos)
          /\ (corrida[t].pc = "aplicar" /\ corrida'[t].pc = "retorno") =>
                /\ corrida[t].grupos = <<>>
                /\ corrida[t].curr = corrida[t].total
                /\ corrida'[t].retorno = "stats" \/ corrida'[t].causa = "commit"]_vars

\* C13 witness: both cases are digital and were found; the apply step of one raised
\* and the other has just been applied after it.
C13_Testigo ==
    \E t \in Hilos :
        /\ corrida[t].ultimo.paso = "aplicado"
        /\ corrida[t].curr = 2 /\ corrida[t].fail = 1 /\ corrida[t].ok = 1
        /\ corrida[t].stats.errores = 1 /\ corrida[t].no_en_bd = 0

Poblada(fila) == \E b \in Bandejas : fila.bandejas[b] # BandejaVacia

\* C15: an apply step that writes a case with a populated queue leaves at least
\* one of its queues populated in the session, and the commit of a run leaves no case that had a
\* populated queue with all four queues null.
C15_LimpiaSoloSiRepuebla ==
    [][\A t \in Hilos, i \in ExpIds :
          /\ (/\ VerExp(tx[t])[i] # AUSENTE /\ Poblada(VerExp(tx[t])[i])
              /\ tx'[t].exp[i] # tx[t].exp[i] /\ tx'[t].exp[i] # SIN_ESCRIBIR) => Poblada(tx'[t].exp[i])
          /\ (/\ corrida[t].pc = "aplicar" /\ corrida'[t].pc = "retorno"
              /\ corrida'[t].retorno = "stats"
              /\ expedientes[i] # AUSENTE /\ Poblada(expedientes[i])) => Poblada(expedientes'[i])]_vars

\* C16: in a run that has scraped, expedientes_no_encontrados is the number of
\* submitted numbers without scraped record, and the run has no pending write on
\* a case, or on a history row of a case, whose number has no scraped record.
C16_NoHalladosIntactos ==
    \A t \in Hilos :
        (corrida[t].pc = "aplicar" \/ (corrida[t].pc = "retorno" /\ corrida[t].causa = "ninguna"
                                          /\ corrida[t].gop_list # <<>>)) =>
            LET c == corrida[t]
                sin_registro == Elementos(c.gop_list) \ c.hallados
            IN  /\ c.stats.expedientes_no_encontrados = Cardinality(sin_registro)
                /\ \A i \in ExpIds :
                       (VerExp(tx[t])[i] # AUSENTE /\ strip(VerExp(tx[t])[i].gop_numero) \in sin_registro) =>
                           /\ tx[t].exp[i] = SIN_ESCRIBIR
                           /\ \A h \in HistIds :
                                  tx[t].hist[h] \notin {SIN_ESCRIBIR, AUSENTE} =>
                                      tx[t].hist[h].expediente_id # i

\* The run of thread t has returned its stats.
DevolvioStats(t) == corrida[t].pc = "retorno" /\ corrida[t].retorno = "stats"

C18_HistorialNoFallaLaCorrida ==
    [][\A t \in Hilos :
          (/\ corrida[t].pc = "aplicar" /\ corrida[t].grupos # <<>>
           /\ corrida'[t].curr = corrida[t].curr + 1
           /\ BuscarExpediente(tx[t], Head(corrida[t].grupos).gop_numero) # {}
           /\ tx'[t] = SesionVacia) =>
              /\ corrida'[t].ultimo.paso = "aplicado"
              /\ corrida'[t].ultimo.efectos = <<"rollback">>
              /\ corrida'[t].ok = corrida[t].ok + 1
              /\ corrida'[t].stats.expedientes_actualizados = corrida[t].stats.expedientes_actualizados + 1
              /\ corrida'[t].fail = corrida[t].fail
              /\ corrida'[t].stats.errores = corrida[t].stats.errores
              /\ corrida'[t].pc = "aplicar" /\ corrida'[t].retorno = "ninguno"
              /\ corrida'[t].grupos = Tail(corrida[t].grupos)]_vars

\* C18 witness: the history table is missing; the second of two found cases has
\* just been counted as updated after the first.
C18_Testigo ==
    \E t \in Hilos :
        /\ ~tabla_historial
        /\ corrida[t].ultimo.paso = "aplicado"
        /\ corrida[t].ultimo.efectos = <<"rollback">>
        /\ corrida[t].curr = 2 /\ corrida[t].ok = 2 /\ corrida[t].fail = 0

C21_EstadoDeTareaConocida ==
    [][\A id \in TaskIds :
          /\ TASKS[id] # SIN_TAREA => TASKS'[id] # SIN_TAREA
          /\ (TASKS[id] = SIN_TAREA /\ TASKS'[id] # SIN_TAREA) =>
                /\ TASKS'[id].status = "queued"
                /\ cola' = Append(cola, id)
          /\ (respuesta' # SinRespuesta /\ respuesta'.task_id = id) =>
                /\ respuesta'.codigo = 404 <=> TASKS[id] = SIN_TAREA
                /\ respuesta'.codigo # 404 =>
                      /\ respuesta'.codigo = 200
                      /\ respuesta'.estado = TASKS[id]]_vars

\* C21 witness: the status of a task was requested while its runner was still in
\* the executor's queue, and the snapshot was returned.
C21_Testigo ==
    /\ respuesta.codigo = 200
    /\ respuesta.estado.status = "queued"
    /\ respuesta.task_id \in Elementos(cola)

(***************************************************************************)
(* The pagination of "Mis Bandejas" (SpecPaginas).                         *)
(***************************************************************************)
\* The candidates clicked by the last call of _hay_siguiente_pagina_y_click.
Clickeados == {k \in 1..scraper.probados : scraper.clicks[k] # "no_visible"}

\* C22: every iteration of the scan either ends it or goes on to the next page
\* number, which never passes max_pages + 1, so the scan ends after at most
\* max_pages pages; and it goes on to another page only when a number is still
\* pending, a next-page control was found and no click left the active-page
\* indicator as it was.
C22_PaginacionTermina ==
    [][scraper.fase = "paginas" =>
          /\ scraper'.fase = "fin" \/ scraper'.pagina_actual = scraper.pagina_actual + 1
          /\ scraper'.pagina_actual <= max_pages + 1
          /\ scraper'.visitadas <= max_pages
          /\ scraper'.fase = "paginas" =>
                /\ scraper'.pendientes # {}
                /\ Clickeados' # {}
                /\ \A k \in Clickeados' : scraper'.clicks[k] # "sin_cambio"]_vars

(***************************************************************************)
(* Protected navigation (SpecNavegacion).                                  *)
(***************************************************************************)
\* C23: in one call of _goto_protegido there is at most one login and at most two
\* navigations; the login happens exactly when the first navigation landed on the
\* login path, and the navigation is repeated exactly when that login returned;
\* a call whose page is on the login path at the end has raised.
C23_ReloginUnaSolaVez ==
    scraper.fase \in {"goto", "login", "ensure", "fin"} =>
        /\ scraper.logins <= 1 /\ scraper.gotos <= 2
        /\ scraper.logins = 1 => scraper.primera = "login"
        /\ scraper.gotos = 2 <=> (scraper.logins = 1 /\ scraper.login = "retorna" /\ scraper.fase # "goto")
        /\ scraper.fase \in {"ensure", "fin"} =>
              (scraper.primera = "login" => scraper.logins = 1)
        /\ (scraper.fase = "fin" /\ scraper.url = "login") => scraper.resultado = "excepcion"

\* C23 witness: the first navigation landed on the login path, the login returned,
\* the second navigation landed on the login path again and the call raised.
C23_Testigo ==
    /\ scraper.fase = "fin"
    /\ scraper.primera = "login" /\ scraper.logins = 1 /\ scraper.gotos = 2
    /\ scraper.url = "login" /\ scraper.resultado = "excepcion"

(***************************************************************************)
(* Date parsing (SpecFechas).                                              *)
(***************************************************************************)
\* A date of the calendar, or None.
FechaONull(v) ==
    \/ v = NULL_FECHA
    \/ /\ v # VALUE_ERROR
       /\ v.anio >= 1 /\ v.mes \in 1..12 /\ v.dia \in 1..DiasDelMes(v.anio, v.mes)

\* C24: _parsear_fecha never raises and returns a date or None for every cell; the
\* ISO string of a date parses to that date; a cell that holds no date leaves its
\* legacy GOP date null, and the per-queue date null when neither cell holds a
\* date, and the record is applied all the same.
C24_FechaNuncaFalla ==
    scraper.fase = "aplicado" =>
        /\ ~scraper.excepcion
        /\ FechaONull(scraper.gop_fecha_entrada)
        /\ FechaONull(scraper.gop_fecha_en_bandeja)
        /\ FechaONull(scraper.bandeja_fecha)
        /\ \A d \in FechasPrueba :
              /\ scraper.fecha_entrada = isoformat(d) => scraper.gop_fecha_entrada = d
              /\ scraper.fecha_en_bandeja = isoformat(d) =>
                    scraper.gop_fecha_en_bandeja = d /\ scraper.bandeja_fecha = d
        /\ scraper.fecha_entrada \in Basura => scraper.gop_fecha_entrada = NULL_FECHA
        /\ scraper.fecha_en_bandeja \in Basura => scraper.gop_fecha_en_bandeja = NULL_FECHA
        /\ (scraper.fecha_entrada \in Basura /\ scraper.fecha_en_bandeja \in Basura) =>
              scraper.bandeja_fecha = NULL_FECHA

\* C24 witness: the entry date is an ISO date and the queue date is a string with
\* a time whose first 10 characters are no ISO date; the record was applied with
\* the entry date as per-queue date and the legacy queue date null.
C24_Testigo ==
    /\ scraper.fase = "aplicado"
    /\ scraper.fecha_entrada = "2024-02-29"
    /\ scraper.fecha_en_bandeja = "05/03/2024 10:30"
    /\ ~scraper.excepcion
    /\ scraper.gop_fecha_entrada = [anio |-> 2024, mes |-> 2, dia |-> 29]
    /\ scraper.gop_fecha_en_bandeja = NULL_FECHA
    /\ scraper.bandeja_fecha = scraper.gop_fecha_entrada

(***************************************************************************)
(* Deleting a case (SpecBorrado).                                          *)
(***************************************************************************)
\* C25: every row of historial_bandejas refers to a case the table expedientes
\* holds.
C25_HistorialConExpediente ==
    \A h \in HistIds :
        historial_bandejas[h] # AUSENTE =>
            expedientes[historial_bandejas[h].expediente_id] # AUSENTE

\* C26: no step changes the per-queue fields, the legacy GOP fields or the history
\* rows of a finalized case, in the table or in a session, also when another case,
\* digital and not finalized, has its tracking number.
C26_FinalizadosIntactos ==
    [][\A i \in ExpIds :
          (expedientes[i] # AUSENTE /\ expedientes[i].finalizado) =>
              /\ expedientes'[i] # AUSENTE
              /\ expedientes'[i].bandejas = expedientes[i].bandejas
              /\ expedientes'[i].gop = expedientes[i].gop
              /\ \A t \in Hilos : tx'[t].exp[i] = SIN_ESCRIBIR
              /\ HistorialDe(historial_bandejas', tx', i) = HistorialDe(historial_bandejas, tx, i)]_vars

\* The status values one step may take a task from one to the next.
SiguienteStatus(status) ==
    CASE status = "ninguna" -> {"queued"}
      [] status = "queued" -> {"running"}
      [] status = "running" -> {"running", "done", "error"}
      [] OTHER -> {}

\* C27: the status of a task created by POST /gop/sync goes from 'queued' to
\* 'running', stays 'running' through the progress updates, and ends in 'done' or
\* 'error'; a task that is 'done' or 'error' keeps its status and its progress.
C27_CicloDeVidaDeTarea ==
    [][\A id \in TaskIds :
          /\ TASKS'[id] # TASKS[id] => TASKS'[id].status \in SiguienteStatus(TASKS[id].status)
          /\ TASKS[id].status \in {"done", "error"} => TASKS'[id] = TASKS[id]]_vars

\* A finished task while a run of POST /gop/sincronizar is applying its records.
C27_Testigo ==
    \E id \in TaskIds :
        /\ TASKS[id].status \in {"done", "error"}
        /\ corrida[HiloPeticion].pc = "aplicar"
        /\ corrida[HiloPeticion].curr > 0


\* C28: every history row the sync history update closed has fecha_fin no earlier
\* than fecha_inicio and dias_en_bandeja equal to the days between the two, whatever
\* the scraped date, one earlier than the start of the open interval included.
C28_IntervalosBienFormados ==
    \A id \in HistIds :
        LET fila == VerHist(tx[HiloLedger])[id] IN
        (fila # AUSENTE /\ fila.fecha_fin # NULL) =>
            /\ fila.fecha_fin >= fila.fecha_inicio
            /\ fila.dias_en_bandeja = fila.fecha_fin - fila.fecha_inicio


\* The set of the ids in the list of a closing.
IdsDelCierre(cierre) == {cierre.expedientes_incluidos[k] : k \in 1..Len(cierre.expedientes_incluidos)}

\* C29: whatever the order of the analyses and closings of the browsers, no case id
\* is in the expedientes_incluidos of two closings.
C29_CierresSinSolapar ==
    scraper.fase = "cierres" =>
        \A a \in 1..Len(scraper.cierres_tasas), b \in 1..Len(scraper.cierres_tasas) :
            a # b => IdsDelCierre(scraper.cierres_tasas[a]) \cap IdsDelCierre(scraper.cierres_tasas[b]) = {}


\* C30: a request changes the stored cases or starts a sync only for an authenticated
\* user, and a client that is not logged in never gets a handler executed that the
\* before-request filter denies to a logged-in user who is not an admin.
C30_SoloAutenticadosEscriben ==
    [][LET u == scraper'.ultima IN
       /\ scraper'.datos # scraper.datos => is_authenticated(u.current_user)
       /\ (u.current_user = "anonimo" /\ u.resultado = "ejecutado") =>
              _limitar_no_admin("limitado", u.endpoint) = "pasa"]_vars
====
